---- MODULE Spec2Model ----
(***************************************************************************)
(* Verification model of jdmtool's device-and-media programming pipeline.  *)
(*                                                                         *)
(*   Spec       open_programming_device / _open_usb_device                 *)
(*              (src/jdmtool/data_card/detect.py) used as a context        *)
(*              manager by a caller whose body drives the Skybound loops.  *)
(*   SpecGarmin the generator methods of GarminProgrammingDevice           *)
(*              (src/jdmtool/data_card/garmin.py) under a caller that uses *)
(*              one generator after the other.                             *)
(*   SpecWrite  the data-card write commands of src/jdmtool/main.py on a   *)
(*              Skybound programmer.                                       *)
(*                                                                         *)
(* Every specification leaves the variables of the others at their idle    *)
(* values.                                                                 *)
(***************************************************************************)
EXTENDS Integers, Sequences, FiniteSets, TLC

(***************************************************************************)
(* Bounds of the model (not program constants).                            *)
(***************************************************************************)
\* number of driver loop iterations the body of the with-block may run
MaxBodyOps == 3
\* number of devices the USB enumeration may list
MaxDevices == 2

VARIABLES
  \* ---- discovery (detect.py) ----
  pc,          \* position in open_programming_device
  devlist,     \* usbcontext.getDeviceIterator(): sequence of (vid, pid)
  endpoints,   \* endpoint addresses of configuration 0 of the device
  fw_version,  \* what control read 0x8A of a Garmin programmer returns
  usbdev,      \* the device picked by the scan, <<>> when none
  dev_cls,     \* "None", "Skybound" or "Garmin"
  site,        \* which `with _open_usb_device` is running
  retry,       \* _open_usb_device: retry
  handle,      \* _open_usb_device: handle (0 is None)
  attempts,    \* iterations of the while loop of the current call
  sleeps,      \* time.sleep(0.5) calls of the current call
  yielded,     \* handle yielded by the current call (0: nothing yielded)
  nextHandle,  \* id of the next handle usbdev.open() returns
  opened,      \* handles obtained from usbdev.open()
  closed,      \* handles on which close() was called
  read_ep,     \* endpoints found by _read_endpoints (0: not read)
  write_ep,
  led_log,     \* LED commands the Skybound programmer received, in order
  init_led_on, \* init() has turned the LED on
  close_called,\* dev.close() was called
  steps,       \* firmware / discovery steps performed, in order
  body_ops,    \* loop iterations run by the body so far
  result,      \* how open_programming_device ended ("none" while running)
  dev_eps,     \* <<read_endpoint, write_endpoint>> of the driver, <<>>: none
  bulk_log,    \* (kind, endpoint) of the bulk transfers the driver made
  \* ---- Garmin driver (data_card/garmin.py) ----
  card_type,   \* self.card_type of the driver
  gen,         \* the generator the caller holds: kind, state, remaining length
  session,     \* session the programmer is in: Idle, Reading, Erasing, Writing
  begin_while_open, \* a begin command was sent while a session was open
  g_uses,      \* generators created so far
  g_begun,     \* begin commands sent so far
  exits,       \* (kind, how) of the uses that are over
  \* ---- data-card write commands (main.py) on a Skybound programmer ----
  w_pc,        \* position in the command
  w_cmd,       \* "write_database" (cmd_write_database) or "transfer"
  has_card,    \* the programmer answers 0x18 with "card present"
  card_iids,   \* IIDs of the chips of the card, as the 4 bytes of the answer
  firmware,    \* firmware version string of the programmer
  full_erase,  \* the --full-erase argument
  file_exists, \* open(path, 'rb') succeeds
  file_size,   \* os.fstat(fd.fileno()).st_size
  card_image,  \* bytes [0, size) of the card: "blank", "file" or "other"
  chips,       \* self.chips
  sectors_per_chip, \* self.sectors_per_chip
  w_card_type, \* self.card_type
  is_orange_card,   \* self.is_orange_card
  erased,      \* sectors that received an erase-sector command
  n_write_cmds,\* write-block commands sent
  w_sent,      \* (phase, sector) of the commands _write_database sent, in order
  w_result,    \* how the command ended ("none" while running)
  card_info,   \* self.card_info
  card_size_min, \* the service's media/card_size_min
  card_size_max, \* the service's media/card_size_max
  warned       \* _transfer_data_card has printed its card-size warning

dvars == <<pc, devlist, endpoints, fw_version, usbdev, dev_cls, site, retry,
           handle, attempts, sleeps, yielded, nextHandle, opened, closed,
           read_ep, write_ep, led_log, init_led_on, close_called, steps,
           body_ops, result, dev_eps, bulk_log>>

gvars == <<card_type, gen, session, begin_while_open, g_uses, g_begun, exits>>

wvars == <<w_pc, w_cmd, has_card, card_iids, firmware, full_erase, file_exists,
           file_size, card_image, chips, sectors_per_chip, w_card_type,
           is_orange_card, erased, n_write_cmds, w_sent, w_result, card_info,
           card_size_min, card_size_max, warned>>

VARIABLES
  \* ---- Skybound sector addressing (data_card/skybound.py) ----
  k_chips,     \* self.chips
  k_spc,       \* self.sectors_per_chip
  k_blocks,    \* the card: <<device block index, data>> of the written blocks
  k_logical,   \* what the caller wrote: <<logical block index, data>>
  k_cur_sector,\* the sector the programmer has selected (-1: none)
  k_cur_block, \* the next block of that sector
  k_gen,       \* the running read_blocks / write_blocks generator
  k_read_ok,   \* every block read so far was what the caller had written
  k_err,       \* the programmer met a command it cannot carry out
  k_ops        \* generators run so far

kvars == <<k_chips, k_spc, k_blocks, k_logical, k_cur_sector, k_cur_block,
           k_gen, k_read_ok, k_err, k_ops>>

\* the Skybound sector addressing is not in use
KIdle ==
  /\ k_chips = 0
  /\ k_spc = 0
  /\ k_blocks = {}
  /\ k_logical = {}
  /\ k_cur_sector = -1
  /\ k_cur_block = -1
  /\ k_gen = [kind |-> "none", sector |-> 0, idx |-> 0, len |-> 0, data |-> 0]
  /\ k_read_ok = TRUE
  /\ k_err = "none"
  /\ k_ops = 0

VARIABLES
  \* ---- TAWS bad-sector translation (taws_utils.py, write_taws.py) ----
  t_bad,       \* bad_sectors, as parse_bad_sectors returned them
  t_total,     \* taws_image_sectors
  t_phys       \* physical sectors of the logical sectors 0, 1, ... so far

tvars == <<t_bad, t_total, t_phys>>

\* no TAWS image is being written
TIdle ==
  /\ t_bad = <<>>
  /\ t_total = 0
  /\ t_phys = <<>>

VARIABLES
  \* ---- charts.bin merge (chartview.py) ----
  c_inputs,    \* the input charts.bin files: header.index_offset and records
  c_pc,        \* position in process_charts_bin
  c_header,    \* new_header: num_files and index_offset
  c_total_offset, \* total_offset
  c_pos,       \* bytes written to the output after the last write
  c_i,         \* the input of the second loop
  c_j,         \* the record of the loop over its records
  c_all,       \* all_records, in the order they were read
  c_index,     \* the records as written to the index
  c_index_pos, \* where in the output the index starts
  c_result     \* how process_charts_bin ended ("none" while running)

cvars == <<c_inputs, c_pc, c_header, c_total_offset, c_pos, c_i, c_j, c_all,
           c_index, c_index_pos, c_result>>

\* no charts.bin is being merged
CIdle ==
  /\ c_inputs = <<>>
  /\ c_pc = "idle"
  /\ c_header = [num_files |-> 0, index_offset |-> 0]
  /\ c_total_offset = 0
  /\ c_pos = 0
  /\ c_i = 0
  /\ c_j = 0
  /\ c_all = <<>>
  /\ c_index = <<>>
  /\ c_index_pos = 0
  /\ c_result = "none"

VARIABLES
  \* ---- checksums (checksum.py) ----
  h_data,      \* the bytes fed so far
  h_q,         \* crc32q_checksum of them, continued call by call
  h_f,         \* feat_unlk_checksum of them, continued call by call
  h_closed_q,  \* <<crc32q_checksum of the bytes and their checksum>>, once taken
  h_closed_f   \* <<feat_unlk_checksum of the bytes and their checksum>>

hvars == <<h_data, h_q, h_f, h_closed_q, h_closed_f>>

\* no checksum is being computed
HIdle ==
  /\ h_data = <<>>
  /\ h_q = <<0, 0, 0, 0>>
  /\ h_f = <<0, 0, 0, 0>>
  /\ h_closed_q = <<>>
  /\ h_closed_f = <<>>

VARIABLES
  \* ---- feat_unlk.dat (featunlk.py) ----
  u_feature,     \* the arguments of update_feat_unlk: the index of the feature,
  u_vol_id,      \*   the volume id,
  u_security_id, \*   the security id,
  u_system_id,   \*   the system id, <<upper 32 bits, lower 32 bits>>,
  u_checksum,    \*   the checksum of the file,
  u_preview,     \*   the preview, [given, bytes]
  u_pc,          \* "call", "written", "displayed" or "raised"
  u_file,        \* feat_unlk.dat: the bytes written, as a set of [offset, data]
  u_checks,      \* the three checksums display_content_of_feat_unlk took
  u_written      \* the features whose slot has been written

uvars == <<u_feature, u_vol_id, u_security_id, u_system_id, u_checksum,
           u_preview, u_pc, u_file, u_checks, u_written>>

\* update_feat_unlk is not being called
UIdle ==
  /\ u_feature = 0
  /\ u_vol_id = <<0, 0, 0, 0>>
  /\ u_security_id = 0
  /\ u_system_id = <<<<0, 0, 0, 0>>, <<0, 0, 0, 0>>>>
  /\ u_checksum = <<0, 0, 0, 0>>
  /\ u_preview = [given |-> FALSE, bytes |-> <<>>]
  /\ u_pc = "idle"
  /\ u_file = {}
  /\ u_checks = <<>>
  /\ u_written = {}

VARIABLES
  \* ---- DBF records (dbf.py) ----
  dbf_fields,  \* the fields of the file: [type, length]
  dbf_record,  \* the bytes of the record read, one character each
  dbf_pc,      \* "read", "write", "done" or "raised"
  dbf_values,  \* the values read_record returned
  dbf_out      \* the bytes write_record wrote

bvars == <<dbf_fields, dbf_record, dbf_pc, dbf_values, dbf_out>>

\* no DBF record is being read
BIdle ==
  /\ dbf_fields = <<>>
  /\ dbf_record = <<>>
  /\ dbf_pc = "idle"
  /\ dbf_values = <<>>
  /\ dbf_out = <<>>

VARIABLES
  \* ---- Avidyne SFX (avidyne.py) ----
  sfx_script,  \* the lines of the dsf.txt script
  sfx_fleet,   \* the fleet ids of the service
  sfx_file,    \* the SFXFile parsed from it: <<[version, sections]>>
  sfx_ctx,     \* the SecurityContext object of the transfer
  sfx_ctx_id,  \* which SecurityContext object it is
  sfx_pc,      \* "parse", "run" or "raised"
  sfx_outs     \* the emissions so far: [ctx_id, bytes]

svars == <<sfx_script, sfx_fleet, sfx_file, sfx_ctx, sfx_ctx_id, sfx_pc, sfx_outs>>

\* no script is being handled
SIdle ==
  /\ sfx_script = <<>>
  /\ sfx_fleet = <<>>
  /\ sfx_file = <<>>
  /\ sfx_ctx = [cycle |-> <<>>, volume_id |-> <<0, 0, 0, 0>>,
                remaining_transfers |-> 0, fleet_ids |-> <<>>]
  /\ sfx_ctx_id = 0
  /\ sfx_pc = "idle"
  /\ sfx_outs = <<>>

VARIABLES
  \* ---- firmware upload (data_card/garmin.py) ----
  f_pc,        \* "construct", "read", "write", "returned" or "raised"
  f_args,      \* the parameters the caller passes to GarminFirmwareWriter
  f_blob,      \* number of records of the firmware blob
  f_answers,   \* what the device answers to each control write of a record
  f_rec,       \* number of the record being sent (0 before the first)
  f_attempts,  \* write_firmware: attempts
  f_log,       \* the control writes made, in order: [rec, answer]
  f_sleeps,    \* time.sleep(0.1) calls
  f_result     \* the exception that reached the caller, <<>> when none

fvars == <<f_pc, f_args, f_blob, f_answers, f_rec, f_attempts, f_log,
           f_sleeps, f_result>>

\* no firmware is being uploaded
FIdle ==
  /\ f_pc = "idle"
  /\ f_args = {}
  /\ f_blob = 0
  /\ f_answers = <<>>
  /\ f_rec = 0
  /\ f_attempts = 0
  /\ f_log = <<>>
  /\ f_sleeps = 0
  /\ f_result = <<>>

VARIABLES
  \* ---- ChartView archives (chartview.py) ----
  z_archive,   \* _entry_map: the archive that holds each member (0: none)
  z_pc,        \* position in the transfer
  z_i,         \* index of the next member to open, in the current phase
  z_open,      \* the members that are open for reading
  z_result     \* how the transfer ended ("none" while running)

zvars == <<z_archive, z_pc, z_i, z_open, z_result>>

\* no ChartView transfer is running
ZIdle ==
  /\ z_archive = <<>>
  /\ z_pc = "idle"
  /\ z_i = 0
  /\ z_open = {}
  /\ z_result = "none"

VARIABLES
  \* ---- copy_with_feat_unlk (featunlk.py) ----
  cp_src,      \* the source stream: [head, zeros, tail], zeros in between
  cp_feature,  \* FILENAME_TO_FEATURE.get(filename), 0 for None
  cp_pos,      \* bytes read from src so far
  cp_block,    \* block: [start, len] of the bytes last read
  cp_last,     \* last_block, as [start, len]
  cp_chk,      \* chk
  cp_preview,  \* preview
  cp_written,  \* bytes written to dest
  cp_content1, \* content1 as update_feat_unlk wrote it to the slot
  cp_pc        \* "start", "loop", "updated" or "raised"

pvars == <<cp_src, cp_feature, cp_pos, cp_block, cp_last, cp_chk, cp_preview,
           cp_written, cp_content1, cp_pc>>

\* no file is being copied
PIdle ==
  /\ cp_src = [head |-> <<>>, zeros |-> 0, tail |-> <<>>]
  /\ cp_feature = 0
  /\ cp_pos = 0
  /\ cp_block = [start |-> 0, len |-> 0]
  /\ cp_last = [start |-> 0, len |-> 0]
  /\ cp_chk = <<0, 0, 0, 0>>
  /\ cp_preview = [given |-> FALSE, bytes |-> <<>>]
  /\ cp_written = 0
  /\ cp_content1 = <<>>
  /\ cp_pc = "idle"

VARIABLES
  \* ---- TAWS block footers (taws_utils.py, write_taws.py) ----
  o_pc,          \* "start", "created" or "verified"
  o_read,        \* the bytes fd_in.read(block_size) returned
  o_block_size,  \* block_size of guess_block_footer_size
  o_footer_size, \* footer_size of guess_block_footer_size
  o_idx,         \* current_idx
  o_footer,      \* the footer create_footer returned
  o_verdict      \* "ok", or the check of verifyBlockCrc that raised

ovars == <<o_pc, o_read, o_block_size, o_footer_size, o_idx, o_footer,
           o_verdict>>

\* no footer is being made
OIdle ==
  /\ o_pc = "idle"
  /\ o_read = <<>>
  /\ o_block_size = 0
  /\ o_footer_size = 0
  /\ o_idx = 0
  /\ o_footer = <<>>
  /\ o_verdict = "none"

VARIABLES
  \* ---- Copy section of a DSF script (avidyne.py) ----
  y_pc,        \* "loop" or "done"
  y_dir0,      \* the dsf directory main.py passes, as its components
  y_dsf_dir,   \* the variable dsf_dir of SFXCopySection.parse_script
  y_script,    \* the file lines of the section, each as its components
  y_i,         \* lines read so far
  y_files,     \* files
  y_result     \* "ok" or the exception ("none" while running)

yvars == <<y_pc, y_dir0, y_dsf_dir, y_script, y_i, y_files, y_result>>

\* no Copy section is being parsed
YIdle ==
  /\ y_pc = "idle"
  /\ y_dir0 = <<>>
  /\ y_dsf_dir = <<>>
  /\ y_script = <<>>
  /\ y_i = 0
  /\ y_files = <<>>
  /\ y_result = "none"

\* the variables of the specifications added after the first three
xvars == <<kvars, tvars, cvars, hvars, uvars, bvars, svars, fvars, zvars, pvars, ovars, yvars>>

\* each specification leaves the variables of the others unchanged
NotK == <<dvars, gvars, wvars, tvars, cvars, hvars, uvars, bvars, svars, fvars, zvars, pvars, ovars, yvars>>
NotT == <<dvars, gvars, wvars, kvars, cvars, hvars, uvars, bvars, svars, fvars, zvars, pvars, ovars, yvars>>
NotC == <<dvars, gvars, wvars, kvars, tvars, hvars, uvars, bvars, svars, fvars, zvars, pvars, ovars, yvars>>
NotH == <<dvars, gvars, wvars, kvars, tvars, cvars, uvars, bvars, svars, fvars, zvars, pvars, ovars, yvars>>
NotU == <<dvars, gvars, wvars, kvars, tvars, cvars, hvars, bvars, svars, fvars, zvars, pvars, ovars, yvars>>
NotB == <<dvars, gvars, wvars, kvars, tvars, cvars, hvars, uvars, svars, fvars, zvars, pvars, ovars, yvars>>
NotS == <<dvars, gvars, wvars, kvars, tvars, cvars, hvars, uvars, bvars, fvars, zvars, pvars, ovars, yvars>>
NotF == <<dvars, gvars, wvars, kvars, tvars, cvars, hvars, uvars, bvars, svars, zvars, pvars, ovars, yvars>>
NotZ == <<dvars, gvars, wvars, kvars, tvars, cvars, hvars, uvars, bvars, svars, fvars, pvars, ovars, yvars>>
NotP == <<dvars, gvars, wvars, kvars, tvars, cvars, hvars, uvars, bvars, svars, fvars, zvars, ovars, yvars>>
NotO == <<dvars, gvars, wvars, kvars, tvars, cvars, hvars, uvars, bvars, svars, fvars, zvars, pvars, yvars>>
NotY == <<dvars, gvars, wvars, kvars, tvars, cvars, hvars, uvars, bvars, svars, fvars, zvars, pvars, ovars>>

\* every such specification is idle
XIdle == KIdle /\ TIdle /\ CIdle /\ HIdle /\ UIdle /\ BIdle /\ SIdle /\ FIdle /\ ZIdle /\ PIdle /\ OIdle /\ YIdle

\* every specification but the named one is idle
IdleBut(g) ==
  /\ IF g = "k" THEN TRUE ELSE KIdle
  /\ IF g = "t" THEN TRUE ELSE TIdle
  /\ IF g = "c" THEN TRUE ELSE CIdle
  /\ IF g = "h" THEN TRUE ELSE HIdle
  /\ IF g = "u" THEN TRUE ELSE UIdle
  /\ IF g = "b" THEN TRUE ELSE BIdle
  /\ IF g = "s" THEN TRUE ELSE SIdle
  /\ IF g = "f" THEN TRUE ELSE FIdle
  /\ IF g = "z" THEN TRUE ELSE ZIdle
  /\ IF g = "p" THEN TRUE ELSE PIdle
  /\ IF g = "o" THEN TRUE ELSE OIdle
  /\ IF g = "y" THEN TRUE ELSE YIdle

vars == <<dvars, gvars, wvars, xvars>>

(***************************************************************************)
(* detect.py: constants                                                    *)
(***************************************************************************)
\* (0x0E39, 0x1250)
SKYBOUND_VID_PID == <<3641, 4688>>
\* (0x091E, 0x1300)
GARMIN_VID_PID == <<2334, 4864>>
\* (0x091E, 0x0500), (0x091E, 0x0300), (0x04B4, 0x8613)
GARMIN_UNINITIALIZED_VID_PID == {<<2334, 1280>>, <<2334, 768>>, <<1204, 34323>>}
\* a device the tool does not know (tests/test_garmin.py: 0x9999, 0x9999)
UNKNOWN_VID_PID == <<39321, 39321>>

AllVidPid == {SKYBOUND_VID_PID, GARMIN_VID_PID, UNKNOWN_VID_PID}
               \cup GARMIN_UNINITIALIZED_VID_PID

\* the version string for which init_stage2 asks for the stage-2 firmware,
\* and any other version string
VERSION_3_02 == "Aviation Card Programmer Ver 3.02 Aug 10 2015 13:21:51"
VERSION_OTHER == "Aviation Card Programmer Ver 3.05 Jan 01 2022 00:00:00"

\* LED commands of the Skybound programmer: b'\x12' and b'\x13'
LED_ON == 18
LED_OFF == 19

Last(s) == s[Len(s)]

SeqsUpTo(S, n) == UNION {[1..k -> S] : k \in 0..n}

(***************************************************************************)
(* common.py: BasicUsbDevice.__init__(self, handle, read_endpoint,         *)
(* write_endpoint) has three required parameters.  A constructor call is   *)
(* modelled by the set of parameters it passes on to it.                   *)
(***************************************************************************)
BasicUsbDevice_init(given) ==
  {"handle", "read_endpoint", "write_endpoint"} \subseteq given

\* BasicUsbDevice.__init__: the attributes bulk_read and bulk_write use
BasicUsbDevice_eps(read_endpoint, write_endpoint) ==
  <<read_endpoint, write_endpoint>>

\* BasicUsbDevice.bulk_read: handle.bulkRead(self.read_endpoint, ...)
bulk_read(eps) == <<"read", eps[1]>>

\* BasicUsbDevice.bulk_write: handle.bulkWrite(self.write_endpoint, ...)
bulk_write(eps) == <<"write", eps[2]>>

\* GarminFirmwareWriter has no __init__ of its own; detect.py constructs it
\* as GarminFirmwareWriter(handle)
GarminFirmwareWriter_new == BasicUsbDevice_init({"handle"})

\* SkyboundDevice has no __init__ of its own; detect.py:234 passes
\* (handle, read_endpoint=, write_endpoint=) to ProgrammingDevice.__init__,
\* which passes all three on
SkyboundDevice_new ==
  BasicUsbDevice_init({"handle", "read_endpoint", "write_endpoint"})

\* GarminProgrammingDevice.__init__ calls super().__init__(handle)
GarminProgrammingDevice_new == BasicUsbDevice_init({"handle"})

(***************************************************************************)
(* skybound.py: LED                                                        *)
(***************************************************************************)
set_led(on) == IF on THEN LED_ON ELSE LED_OFF

\* SkyboundDevice.init
SkyboundDevice_init == set_led(TRUE)

\* a close() that sends the wrong LED command
SkyboundDevice_close_led_on == set_led(TRUE)

\* SkyboundDevice.close
SkyboundDevice_close == set_led(FALSE)

\* SkyboundDevice._loop_helper(i): the LED command of iteration i
loop_helper_led(i) == set_led(i % 2 = 0)

(***************************************************************************)
(* detect.py: _open_usb_device                                             *)
(***************************************************************************)
\* a retry limit that is one too high
RetriesUsedUp_off_by_one(r) == r > 3

\* `retry >= 3` after `retry += 1`
RetriesUsedUp(r) == r >= 3

\* what one iteration of the while loop can meet: success, USBError from
\* usbdev.open(), from handle.claimInterface(0) or from handle.resetDevice().
\* (USBError from setAutoDetachKernelDriver is caught and ignored.)
OpenOutcomes == {"ok", "open_fails", "claim_fails", "reset_fails"}

\* the finally clause: close the handle the variable holds
FinallyClose(h) == IF h # 0 THEN closed \cup {h} ELSE closed

\* where control goes when the handle is yielded
AfterOpen(s) == IF s = "final" THEN "construct" ELSE "fw_body"

\* the call `_open_usb_device(usbdev)`: fresh locals
BeginOpen(s) ==
  /\ site' = s
  /\ retry' = 0
  /\ attempts' = 0
  /\ sleeps' = 0
  /\ handle' = 0
  /\ yielded' = 0

\* one iteration of `while True` (lines 62-80), with the raise of line 79
\* running the finally clause of lines 84-86
OpenAttempt ==
  /\ UNCHANGED <<gvars, wvars, xvars, dev_eps, bulk_log>>
  /\ pc = "opening"
  /\ \E outcome \in OpenOutcomes :
       LET got == outcome # "open_fails"
           h1  == IF got THEN nextHandle ELSE handle
       IN
       /\ attempts' = attempts + 1
       /\ nextHandle' = IF got THEN nextHandle + 1 ELSE nextHandle
       /\ opened' = IF got THEN opened \cup {nextHandle} ELSE opened
       /\ handle' = h1
       /\ IF outcome = "ok"
          THEN /\ yielded' = h1
               /\ pc' = AfterOpen(site)
               /\ UNCHANGED <<retry, sleeps, closed, result>>
          ELSE /\ retry' = retry + 1
               /\ yielded' = yielded
               /\ IF RetriesUsedUp(retry + 1)
                  THEN /\ closed' = FinallyClose(h1)
                       /\ result' = "OpenFailed"
                       /\ pc' = "done"
                       /\ sleeps' = sleeps
                  ELSE /\ sleeps' = sleeps + 1
                       /\ pc' = "opening"
                       /\ UNCHANGED <<closed, result>>
  /\ UNCHANGED <<devlist, endpoints, fw_version, usbdev, dev_cls, site,
                 read_ep, write_ep, led_log, init_led_on, close_called,
                 steps, body_ops>>

(***************************************************************************)
(* detect.py: _read_endpoints                                              *)
(***************************************************************************)
\* (addr & 0xF0) == 0x80 and (addr & 0xF0) == 0x00, for one-byte addresses
IsInEndpoint(addr) == (addr \div 16) * 16 = 128
IsOutEndpoint(addr) == (addr \div 16) * 16 = 0

in_eps(eps) == SelectSeq(eps, IsInEndpoint)
out_eps(eps) == SelectSeq(eps, IsOutEndpoint)

\* _read_endpoints raises when there is no endpoint, no IN or no OUT endpoint
EndpointsFound(eps) == eps # <<>> /\ in_eps(eps) # <<>> /\ out_eps(eps) # <<>>

(***************************************************************************)
(* detect.py: open_programming_device                                      *)
(***************************************************************************)
Known(vp) == vp = SKYBOUND_VID_PID \/ vp \in GARMIN_UNINITIALIZED_VID_PID
               \/ vp = GARMIN_VID_PID

\* the for loop of line 172 stops at the first device one of its branches
\* takes; 0 when it runs into its else clause
FirstKnown(list) ==
  IF \E i \in 1..Len(list) : Known(list[i])
  THEN CHOOSE i \in 1..Len(list) :
         Known(list[i]) /\ \A j \in 1..(i - 1) : ~Known(list[j])
  ELSE 0

\* lines 172-229, up to the first `with _open_usb_device` or the break
Scan ==
  /\ UNCHANGED <<gvars, wvars, xvars, dev_eps, bulk_log>>
  /\ pc = "scan"
  /\ LET i == FirstKnown(devlist) IN
     IF i = 0
     THEN /\ result' = "DeviceNotFound"
          /\ pc' = "done"
          /\ UNCHANGED <<usbdev, dev_cls, site, retry, attempts, sleeps,
                         handle, yielded>>
     ELSE /\ usbdev' = devlist[i]
          /\ result' = result
          /\ IF devlist[i] = SKYBOUND_VID_PID
             THEN /\ dev_cls' = "Skybound"
                  /\ pc' = "read_ep"
                  /\ UNCHANGED <<site, retry, attempts, sleeps, handle,
                                 yielded>>
             ELSE /\ dev_cls' = dev_cls
                  /\ pc' = "opening"
                  /\ BeginOpen(IF devlist[i] = GARMIN_VID_PID
                               THEN "fw_op" ELSE "fw_uninit")
  /\ UNCHANGED <<devlist, endpoints, fw_version, nextHandle, opened, closed,
                 read_ep, write_ep, led_log, init_led_on, close_called,
                 steps, body_ops>>

\* The body of the firmware with-blocks (lines 183-206 and 214-224).  Both
\* start with `writer = GarminFirmwareWriter(handle)`, which raises TypeError
\* because BasicUsbDevice.__init__ also requires read_endpoint and
\* write_endpoint; nothing after it in those blocks is reached.  On the
\* operational branch `except Exception` turns the TypeError into a
\* ProgrammingException.  Leaving the with-block closes the handle.
FirmwareBody ==
  /\ UNCHANGED <<gvars, wvars, xvars, dev_eps, bulk_log>>
  /\ pc = "fw_body"
  /\ ~GarminFirmwareWriter_new
  /\ closed' = FinallyClose(handle)
  /\ result' = IF site = "fw_op" THEN "ProgrammingException" ELSE "TypeError"
  /\ pc' = "done"
  /\ UNCHANGED <<devlist, endpoints, fw_version, usbdev, dev_cls, site, retry,
                 handle, attempts, sleeps, yielded, nextHandle, opened,
                 read_ep, write_ep, led_log, init_led_on, close_called,
                 steps, body_ops>>

\* lines 232-233: _read_endpoints(usbdev), then `with _open_usb_device`
ReadEndpoints ==
  /\ UNCHANGED <<gvars, wvars, xvars, dev_eps, bulk_log>>
  /\ pc = "read_ep"
  /\ IF EndpointsFound(endpoints)
     THEN /\ read_ep' = Head(in_eps(endpoints))
          /\ write_ep' = Head(out_eps(endpoints))
          /\ steps' = Append(steps, "read_endpoints")
          /\ pc' = "opening"
          /\ BeginOpen("final")
          /\ result' = result
     ELSE /\ result' = "ProgrammingException"
          /\ pc' = "done"
          /\ UNCHANGED <<read_ep, write_ep, steps, site, retry, attempts,
                         sleeps, handle, yielded>>
  /\ UNCHANGED <<devlist, endpoints, fw_version, usbdev, dev_cls, nextHandle,
                 opened, closed, led_log, init_led_on, close_called, body_ops>>

\* lines 234-238: construct the driver, init(), yield it.  An exception of
\* the constructor or of init() is raised before the try of line 237, so
\* dev.close() is not called for it; the handle is closed all the same.
Construct ==
  /\ UNCHANGED <<gvars, wvars, xvars>>
  /\ pc = "construct"
  /\ LET ctor_ok == IF dev_cls = "Skybound" THEN SkyboundDevice_new
                    ELSE GarminProgrammingDevice_new
     IN
     IF ~ctor_ok
     THEN /\ result' = "TypeError"
          /\ closed' = FinallyClose(handle)
          /\ pc' = "done"
          /\ UNCHANGED <<led_log, init_led_on, steps, dev_eps, bulk_log>>
     ELSE \E init_ok \in BOOLEAN :
            /\ dev_eps' = BasicUsbDevice_eps(read_ep, write_ep)
            /\ bulk_log' = IF dev_cls = "Skybound"
                           THEN bulk_log \cup {bulk_write(dev_eps')}
                           ELSE bulk_log
            /\ IF init_ok
               THEN /\ led_log' = IF dev_cls = "Skybound"
                                  THEN Append(led_log, SkyboundDevice_init)
                                  ELSE led_log
                    /\ init_led_on' = (dev_cls = "Skybound")
                    /\ steps' = Append(steps, "yield")
                    /\ pc' = "body"
                    /\ UNCHANGED <<closed, result>>
               ELSE /\ result' = "USBError"
                    /\ closed' = FinallyClose(handle)
                    /\ pc' = "done"
                    /\ UNCHANGED <<led_log, init_led_on, steps>>
  /\ UNCHANGED <<devlist, endpoints, fw_version, usbdev, dev_cls, site, retry,
                 handle, attempts, sleeps, yielded, nextHandle, opened,
                 read_ep, write_ep, close_called, body_ops>>

\* lines 239-240 and 84-86: leaving the with-block, normally or with an
\* exception, runs `finally: dev.close()` and then closes the handle.
\* `log` is the LED log and `bulk` the bulk transfers at the moment the body
\* is left.
ExitScope(log, bulk, res) ==
  /\ led_log' = IF dev_cls = "Skybound"
                THEN Append(log, SkyboundDevice_close) ELSE log
  /\ bulk_log' = IF dev_cls = "Skybound"
                 THEN bulk \cup {bulk_write(dev_eps)} ELSE bulk
  /\ dev_eps' = dev_eps
  /\ close_called' = TRUE
  /\ closed' = FinallyClose(handle)
  /\ result' = res
  /\ pc' = "done"

\* The body runs one iteration of read_blocks, erase_sectors or
\* write_blocks: _loop_helper(i) sends the LED command of its index and
\* then check_card() raises when the card is gone.
BodyLoopStep ==
  /\ UNCHANGED <<gvars, wvars, xvars>>
  /\ pc = "body"
  /\ body_ops < MaxBodyOps
  /\ \E i \in 0..1, card_there \in BOOLEAN :
       LET log == Append(led_log, loop_helper_led(i))
           \* set_led, then has_card: bulk_write(b"\x18") and bulk_read
           bulk == bulk_log \cup {bulk_write(dev_eps), bulk_read(dev_eps)}
       IN
       /\ body_ops' = body_ops + 1
       /\ IF card_there
          THEN /\ led_log' = log
               /\ bulk_log' = bulk
               /\ UNCHANGED <<close_called, closed, result, pc, dev_eps>>
          ELSE ExitScope(log, bulk, "ProgrammingException")
  /\ UNCHANGED <<devlist, endpoints, fw_version, usbdev, dev_cls, site, retry,
                 handle, attempts, sleeps, yielded, nextHandle, opened,
                 read_ep, write_ep, init_led_on, steps>>

\* the body returns
BodyReturn ==
  /\ UNCHANGED <<gvars, wvars, xvars>>
  /\ pc = "body"
  /\ ExitScope(led_log, bulk_log, "ok")
  /\ UNCHANGED <<devlist, endpoints, fw_version, usbdev, dev_cls, site, retry,
                 handle, attempts, sleeps, yielded, nextHandle, opened,
                 read_ep, write_ep, init_led_on, steps, body_ops>>

\* the body raises (UserException of confirm, an IOError, a USBError, ...)
BodyRaise ==
  /\ UNCHANGED <<gvars, wvars, xvars>>
  /\ pc = "body"
  /\ ExitScope(led_log, bulk_log, "BodyException")
  /\ UNCHANGED <<devlist, endpoints, fw_version, usbdev, dev_cls, site, retry,
                 handle, attempts, sleeps, yielded, nextHandle, opened,
                 read_ep, write_ep, init_led_on, steps, body_ops>>

\* endpoint layouts of configuration 0: 0x81/0x02, 0x02 before 0x86,
\* two of each, IN only, none
EndpointLayouts ==
  {<<129, 2>>, <<2, 134>>, <<130, 134, 2, 4>>, <<134>>, <<>>}

DInit ==
  /\ pc = "scan"
  /\ devlist \in SeqsUpTo(AllVidPid, MaxDevices)
  /\ endpoints \in EndpointLayouts
  /\ fw_version \in {VERSION_3_02, VERSION_OTHER}
  /\ usbdev = <<>>
  /\ dev_cls = "None"
  /\ site = "none"
  /\ retry = 0
  /\ handle = 0
  /\ attempts = 0
  /\ sleeps = 0
  /\ yielded = 0
  /\ nextHandle = 1
  /\ opened = {}
  /\ closed = {}
  /\ read_ep = 0
  /\ write_ep = 0
  /\ led_log = <<>>
  /\ init_led_on = FALSE
  /\ close_called = FALSE
  /\ steps = <<>>
  /\ body_ops = 0
  /\ result = "none"
  /\ dev_eps = <<>>
  /\ bulk_log = {}

\* the Garmin driver is not in use
GIdle ==
  /\ card_type = "NONE"
  /\ gen = [kind |-> "none", st |-> "none", rem |-> 0]
  /\ session = "Idle"
  /\ begin_while_open = FALSE
  /\ g_uses = 0
  /\ g_begun = 0
  /\ exits = {}

\* no data-card command is running
WIdle ==
  /\ w_pc = "idle"
  /\ w_cmd = "none"
  /\ has_card = FALSE
  /\ card_iids = <<>>
  /\ firmware = "20071203"
  /\ full_erase = FALSE
  /\ file_exists = FALSE
  /\ file_size = 0
  /\ card_image = "blank"
  /\ chips = 0
  /\ sectors_per_chip = 0
  /\ w_card_type = "NONE"
  /\ is_orange_card = FALSE
  /\ erased = {}
  /\ n_write_cmds = 0
  /\ w_sent = <<>>
  /\ w_result = "none"
  /\ card_info = ""
  /\ card_size_min = 0
  /\ card_size_max = 0
  /\ warned = FALSE

Init == DInit /\ GIdle /\ WIdle /\ XIdle

Next ==
  \/ Scan
  \/ OpenAttempt
  \/ FirmwareBody
  \/ ReadEndpoints
  \/ Construct
  \/ BodyLoopStep
  \/ BodyReturn
  \/ BodyRaise

Spec == Init /\ [][Next]_vars

(***************************************************************************)
(* data_card/common.py: DataCardType                                       *)
(***************************************************************************)
\* NAVDATA = (0x10000, 0x1000, 0x1000, 0x1000)
NAVDATA == [sector_size |-> 65536, read_size |-> 4096,
            min_write_size |-> 4096, max_write_size |-> 4096]
\* TAWS = (0x10800, 0xf800, 0x0840, 0xffc0)
TAWS == [sector_size |-> 67584, read_size |-> 63488,
         min_write_size |-> 2112, max_write_size |-> 65472]

DataCardType(name) == IF name = "TAWS" THEN TAWS ELSE NAVDATA

Min(a, b) == IF a < b THEN a ELSE b

(***************************************************************************)
(* data_card/garmin.py: GarminProgrammingDevice.read_blocks,               *)
(* erase_sectors and write_blocks.  The programmer is in a session from a  *)
(* begin command (control write 0x81, 0x85, 0x86) to the end command that  *)
(* closes it: end_read (0x83) for a read, end_write (0x87) for an erase or *)
(* a write.                                                                *)
(***************************************************************************)
\* longest read / write, in blocks, and longest erase, in sectors
MaxBlocks == 2
\* generators the caller creates in one run
MaxUses == 3

GenKinds == {"read", "erase", "write"}

\* what begin_read / begin_erase / begin_write can meet: check_card() finds
\* no card (ProgrammingException) or a control transfer raises USBError;
\* in both cases the begin command has not been sent
BeginOutcomes == {"ok", "no_card", "usb_error"}

\* what one iteration of the loop can meet
\*   read_blocks:   bulk_read raises USBError
\*   erase_sectors: bulk_read raises USBError, the 12-byte response has a
\*                  wrong prefix or a wrong index (ProgrammingException)
\*   write_blocks:  read_func returns too few bytes (IOError), bulk_write
\*                  raises USBError
StepOutcomes(kind) ==
  IF kind = "read" THEN {"ok", "usb_error"}
  ELSE IF kind = "erase" THEN {"ok", "usb_error", "bad_prefix", "bad_index"}
  ELSE {"ok", "short_read", "usb_error"}

\* block_size of read_blocks / write_blocks; erase_sectors counts sectors
StepSize(kind) ==
  IF kind = "read" THEN DataCardType(card_type).read_size
  ELSE IF kind = "write" THEN DataCardType(card_type).max_write_size
  ELSE 1

\* lengths the caller passes: whole blocks and one byte more
Lengths(kind) ==
  IF kind = "erase" THEN 0..MaxBlocks
  ELSE {k * StepSize(kind) + r : k \in 0..(MaxBlocks - 1), r \in 0..1}
         \cup {MaxBlocks * StepSize(kind)}

\* begin_read, begin_erase, begin_write: the session the command opens
SessionOf(kind) ==
  IF kind = "read" THEN "Reading"
  ELSE IF kind = "erase" THEN "Erasing" ELSE "Writing"

\* end_read (0x83) closes a read session
end_read(s) == IF s = "Reading" THEN "Idle" ELSE s

\* end_write (0x87) closes an erase or a write session
end_write(s) == IF s \in {"Erasing", "Writing"} THEN "Idle" ELSE s

\* a generator that sends no end command when it is closed or raises
Finally_missing(kind, s) == s

\* a generator that ends every session with end_read
Finally_end_read(kind, s) == end_read(s)

\* the finally clauses: read_blocks ends with end_read(), erase_sectors and
\* write_blocks with end_write()
Finally(kind, s) == IF kind = "read" THEN end_read(s) ELSE end_write(s)

\* the loop from its condition to the next yield or to the end of the
\* generator; `rem` is the remaining length, `s` the session
RunLoop(kind, rem, s, out) ==
  IF rem > 0
  THEN IF out = "ok"
       THEN /\ gen' = [kind |-> kind, st |-> "suspended", rem |-> rem]
            /\ session' = s
            /\ exits' = exits
       ELSE /\ gen' = [kind |-> kind, st |-> "finished", rem |-> rem]
            /\ session' = Finally(kind, s)
            /\ exits' = exits \cup {<<kind, "raised">>}
  ELSE /\ gen' = [kind |-> kind, st |-> "finished", rem |-> rem]
       /\ session' = Finally(kind, s)
       /\ exits' = exits \cup {<<kind, "completed">>}

\* dev.read_blocks(...), dev.erase_sectors(...), dev.write_blocks(...):
\* calling a generator function runs none of its code.  The caller uses one
\* generator after the other.
GCall ==
  /\ UNCHANGED <<dvars, wvars, xvars>>
  /\ gen.st \in {"none", "finished"}
  /\ g_uses < MaxUses
  /\ \E kind \in GenKinds :
       \E len \in Lengths(kind) :
         gen' = [kind |-> kind, st |-> "created", rem |-> len]
  /\ g_uses' = g_uses + 1
  /\ UNCHANGED <<card_type, session, begin_while_open, g_begun, exits>>

\* the first next(): the begin command, then the loop up to the first yield
GStart ==
  /\ UNCHANGED <<dvars, wvars, xvars>>
  /\ gen.st = "created"
  /\ \E b \in BeginOutcomes :
       IF b # "ok"
       THEN /\ gen' = [gen EXCEPT !.st = "finished"]
            /\ exits' = exits \cup {<<gen.kind, "begin_failed">>}
            /\ UNCHANGED <<session, begin_while_open, g_begun>>
       ELSE /\ begin_while_open' = (begin_while_open \/ session # "Idle")
            /\ g_begun' = g_begun + 1
            /\ \E out \in StepOutcomes(gen.kind) :
                 RunLoop(gen.kind, gen.rem, SessionOf(gen.kind), out)
  /\ UNCHANGED <<card_type, g_uses>>

\* a later next(): the statement after the yield (length -= block_size, or
\* the next idx of range(num_sectors)), then the loop up to the next yield
GResume ==
  /\ UNCHANGED <<dvars, wvars, xvars>>
  /\ gen.st = "suspended"
  /\ \E out \in StepOutcomes(gen.kind) :
       RunLoop(gen.kind, gen.rem - StepSize(gen.kind), session, out)
  /\ UNCHANGED <<card_type, begin_while_open, g_uses, g_begun>>

\* The caller drops the generator (a break or an exception in the body of
\* its for loop): the last reference goes away and the generator is closed,
\* which raises GeneratorExit at the yield and runs the finally clause.  A
\* generator that was never started runs nothing.
GDrop ==
  /\ UNCHANGED <<dvars, wvars, xvars>>
  /\ gen.st \in {"created", "suspended"}
  /\ gen' = [gen EXCEPT !.st = "finished"]
  /\ IF gen.st = "suspended"
     THEN /\ session' = Finally(gen.kind, session)
          /\ exits' = exits \cup {<<gen.kind, "dropped">>}
     ELSE UNCHANGED <<session, exits>>
  /\ UNCHANGED <<card_type, begin_while_open, g_uses, g_begun>>

\* the discovery is not running
DIdle ==
  /\ pc = "idle"
  /\ devlist = <<>>
  /\ endpoints = <<>>
  /\ fw_version = VERSION_OTHER
  /\ usbdev = <<>>
  /\ dev_cls = "None"
  /\ site = "none"
  /\ retry = 0
  /\ handle = 0
  /\ attempts = 0
  /\ sleeps = 0
  /\ yielded = 0
  /\ nextHandle = 1
  /\ opened = {}
  /\ closed = {}
  /\ read_ep = 0
  /\ write_ep = 0
  /\ led_log = <<>>
  /\ init_led_on = FALSE
  /\ close_called = FALSE
  /\ steps = <<>>
  /\ body_ops = 0
  /\ result = "none"
  /\ dev_eps = <<>>
  /\ bulk_log = {}

\* a driver whose init_data_card() has found a card
GInit ==
  /\ card_type \in {"NAVDATA", "TAWS"}
  /\ gen = [kind |-> "none", st |-> "none", rem |-> 0]
  /\ session = "Idle"
  /\ begin_while_open = FALSE
  /\ g_uses = 0
  /\ g_begun = 0
  /\ exits = {}

InitGarmin == DIdle /\ GInit /\ WIdle /\ XIdle

NextGarmin ==
  \/ GCall
  \/ GStart
  \/ GResume
  \/ GDrop

SpecGarmin == InitGarmin /\ [][NextGarmin]_vars

C3_SessionEndedOnEveryExit ==
  (gen.st \in {"none", "created", "finished"}) => session = "Idle"

\* a read was dropped, an erase raised and a write ran to completion
C3_Witness ==
  /\ gen.st = "finished"
  /\ g_begun = 3
  /\ {<<"read", "dropped">>, <<"erase", "raised">>, <<"write", "completed">>}
       \subseteq exits

(***************************************************************************)
(* Claims about _open_usb_device and open_programming_device               *)
(***************************************************************************)
Range(s) == {s[i] : i \in 1..Len(s)}

\* C5: on every exit path of _open_usb_device (normal exit of the body, an
\* exception in the body, failure after the retries are used up) every
\* handle obtained from usbdev.open() has been closed, the handle of an
\* attempt whose claimInterface or resetDevice failed and was retried
\* included.
C5_AllHandlesClosed == pc = "done" => opened \subseteq closed

\* C6: for a Skybound programmer, once init() has turned the LED on, close()
\* is called on every exit of the scope (return or exception of the body),
\* and the last LED command the device receives is LED-off (0x13), whatever
\* the loops of the body sent before.
C6_LedOffOnScopeExit ==
  (pc = "done" /\ init_led_on) =>
     /\ close_called
     /\ led_log # <<>>
     /\ Last(led_log) = LED_OFF

\* the body raised after one of its loops had left the LED on
C6_Witness ==
  /\ pc = "done"
  /\ init_led_on
  /\ result = "BodyException"
  /\ Len(led_log) >= 3
  /\ led_log[Len(led_log) - 1] = LED_ON

\* C7: _open_usb_device makes at most 3 attempts, sleeping between attempts
\* (after the first and the second failure only); when all 3 attempts raise
\* a USB error it raises ProgrammingException and yields no handle; when an
\* attempt succeeds it yields the handle of that attempt and makes no
\* further attempt.
C7_OpenRetries ==
  /\ attempts <= 3
  /\ sleeps = (IF retry >= 3 THEN 2 ELSE retry)
  /\ (retry >= 3) => (result = "OpenFailed" /\ attempts = 3 /\ yielded = 0)
  /\ (result = "OpenFailed") => (retry = 3 /\ yielded = 0)
  /\ (yielded # 0) =>
        /\ yielded = handle
        /\ yielded = nextHandle - 1
        /\ attempts = retry + 1

\* three failed attempts: the call gave up after two sleeps
C7_Witness ==
  /\ pc = "done"
  /\ result = "OpenFailed"
  /\ attempts = 3
  /\ sleeps = 2
  /\ yielded = 0

\* the current model: PID 0x0500 and the 04B4:8613 fallback
CurrentModel(vp) == vp \in {<<2334, 1280>>, <<1204, 34323>>}

\* C8: for an uninitialized current-model Garmin programmer (whose version
\* asks for stage 2) that can be opened, discovery performs, in this order
\* and once each: stage-1 firmware, rescan, init_stage2, stage-2 firmware,
\* rescan, and only then reads the endpoints and yields the driver.
C8_CurrentGarminFirmwareSteps ==
  (/\ pc = "done"
   /\ CurrentModel(usbdev)
   /\ fw_version = VERSION_3_02
   /\ EndpointsFound(endpoints)
   /\ result \notin {"OpenFailed", "USBError"}) =>
     steps = <<"stage1", "rescan", "init_stage2", "stage2", "rescan",
               "read_endpoints", "yield">>

\* C9: when the Garmin programmer reports a version other than the one that
\* asks for stage 2 (init_stage2 signals AlreadyUpdated), the stage-2
\* firmware is not written, no error reaches the caller and discovery goes
\* on to yield the operational Garmin driver.
C9_AlreadyUpdatedAbsorbed ==
  (/\ pc = "done"
   /\ (usbdev = GARMIN_VID_PID \/ CurrentModel(usbdev))
   /\ fw_version # VERSION_3_02
   /\ EndpointsFound(endpoints)
   /\ result \notin {"OpenFailed", "USBError"}) =>
     /\ "stage2" \notin Range(steps)
     /\ "yield" \in Range(steps)
     /\ dev_cls = "Garmin"


(***************************************************************************)
(* data_card/skybound.py: card identification                              *)
(***************************************************************************)
\* MEMORY_OFFSETS = [0x00E0, 0x0160, 0x01A0, 0x01C0]
MEMORY_OFFSETS == <<224, 352, 416, 448>>

\* An IID is kept as the 4 bytes the programmer answers to 50 04;
\* int.from_bytes(buf, 'little') makes byte 4 the top byte, so that
\* `iid >> 24` is byte 4 and `(iid >> 8) & 0xFF` is byte 2.
manufacturer_id(iid) == iid[4]
chip_id(iid) == iid[2]

\* 0x90009000 and 0xff00ff00: what the black and the orange firmware answer
\* where there is no chip
SENTINEL_BLACK == <<0, 144, 0, 144>>
SENTINEL_ORANGE == <<0, 255, 0, 255>>

\* chips of the cards of tests/test_skybound.py: 0x8900a200, 0x0100ad00,
\* 0x01004100, 0x89007e00 and the unknown 0x12345678
CHIP_INTEL_1MB == <<0, 162, 0, 137>>
CHIP_AMD_2MB == <<0, 173, 0, 1>>
CHIP_AMD_4MB_SILVER == <<0, 65, 0, 1>>
CHIP_AMD_4MB_ORANGE == <<0, 126, 0, 137>>
FAKE_CHIP == <<120, 86, 52, 18>>

\* IID_MAP: (manufacturer_id, chip_id) -> (card_type, sectors_per_chip)
IID_MAP_KEYS ==
  {<<137, 162>>, <<137, 166>>, <<1, 173>>, <<137, 170>>, <<1, 65>>,
   <<137, 126>>, <<236, 121>>, <<236, 218>>}

IID_MAP(key) ==
  IF key \in {<<137, 162>>, <<137, 166>>}
  THEN [card_type |-> "NAVDATA", sectors_per_chip |-> 16,
        card_info |-> "non-WAAS (white)"]
  ELSE IF key \in {<<1, 173>>, <<137, 170>>}
  THEN [card_type |-> "NAVDATA", sectors_per_chip |-> 32,
        card_info |-> "non-WAAS (green)"]
  ELSE IF key = <<1, 65>>
  THEN [card_type |-> "NAVDATA", sectors_per_chip |-> 64,
        card_info |-> "WAAS (silver)"]
  ELSE IF key = <<137, 126>>
  THEN [card_type |-> "NAVDATA", sectors_per_chip |-> 64,
        card_info |-> "WAAS (orange)"]
  ELSE IF key = <<236, 121>>
  THEN [card_type |-> "TAWS", sectors_per_chip |-> 2048,
        card_info |-> "Terrain/Obstacles"]
  ELSE [card_type |-> "TAWS", sectors_per_chip |-> 4096,
        card_info |-> "Terrain/Obstacles"]

\* the programmer's answer to 50 04 after selecting MEMORY_OFFSETS[k]: the
\* IID of chip k, or the sentinel of its firmware where the card has no chip
IidAt(k) ==
  IF k <= Len(card_iids) THEN card_iids[k]
  ELSE IF firmware = "20140530" THEN SENTINEL_ORANGE ELSE SENTINEL_BLACK

\* a get_chip_iids that does not stop at the sentinel
get_chip_iids_no_stop == [k \in 1..Len(MEMORY_OFFSETS) |-> IidAt(k)]

\* get_chip_iids: the IIDs at the four offsets up to the first sentinel
get_chip_iids ==
  LET stop(k) == IidAt(k) = SENTINEL_BLACK \/ IidAt(k) = SENTINEL_ORANGE
      n == IF \E k \in 1..Len(MEMORY_OFFSETS) : stop(k)
           THEN (CHOOSE k \in 1..Len(MEMORY_OFFSETS) :
                   stop(k) /\ \A j \in 1..(k - 1) : ~stop(j)) - 1
           ELSE Len(MEMORY_OFFSETS)
  IN [k \in 1..n |-> IidAt(k)]

\* init_data_card: the error it raises ("none" when it returns) and the
\* fields it has assigned by then; self.chips is assigned before the checks
\* on the chips
init_data_card ==
  LET iids == get_chip_iids
      key  == <<manufacturer_id(iids[1]), chip_id(iids[1])>>
      unset == [chips |-> 0, card_type |-> "NONE", sectors_per_chip |-> 0,
                is_orange_card |-> FALSE, card_info |-> ""]
  IN
  IF ~has_card THEN unset @@ [err |-> "CardMissing"]
  ELSE IF iids = <<>> THEN unset @@ [err |-> "UnsupportedCard"]
  ELSE IF Len(iids) = 1 \/ Cardinality(Range(iids)) > 1
  THEN [unset EXCEPT !.chips = Len(iids)] @@ [err |-> "UnknownCard"]
  ELSE IF key \notin IID_MAP_KEYS
  THEN [unset EXCEPT !.chips = Len(iids)] @@ [err |-> "UnknownCard"]
  ELSE [chips |-> Len(iids),
        card_type |-> IID_MAP(key).card_type,
        sectors_per_chip |-> IID_MAP(key).sectors_per_chip,
        is_orange_card |-> (key = <<137, 126>>),
        card_info |-> IID_MAP(key).card_info,
        err |-> "none"]

\* check_supports_write raises for an orange-label card on a programmer
\* whose firmware is not 20140530
check_supports_write_raises ==
  is_orange_card /\ firmware # "20140530"

\* get_card_name: f"{self.chips * self.sectors_per_chip // 0x10}MB
\* {self.card_info}", kept as the pair of the number and the description
get_card_name == <<(chips * sectors_per_chip) \div 16, card_info>>

\* get_total_sectors and get_total_size
get_total_sectors == chips * sectors_per_chip
get_total_size == get_total_sectors * DataCardType(w_card_type).sector_size

(***************************************************************************)
(* data_card/common.py: the attributes of class ProgrammingDevice          *)
(* (its own and those of BasicUsbDevice).  It has no BLOCK_SIZE,           *)
(* BLOCKS_PER_SECTOR or SECTOR_SIZE; reading one of them raises            *)
(* AttributeError.                                                         *)
(***************************************************************************)
ProgrammingDevice_attrs ==
  {"TIMEOUT", "card_type", "chips", "sectors_per_chip", "card_info",
   "bulk_read", "bulk_write", "control_read", "control_write",
   "init", "close", "has_card", "get_card_name", "get_card_description",
   "get_firmware_version", "get_firmware_description", "get_chip_iids",
   "init_data_card", "get_total_sectors", "get_total_size", "pad_for_write",
   "read_blocks", "erase_sectors", "write_blocks", "check_card",
   "check_supports_write"}

HasClassAttr(name) == name \in ProgrammingDevice_attrs

(***************************************************************************)
(* main.py: with_data_card, cmd_write_database, _transfer_data_card,       *)
(* _write_database                                                         *)
(***************************************************************************)
\* with_data_card (lines 104-116), up to the call of the command
WithDataCard ==
  /\ UNCHANGED <<dvars, gvars, xvars>>
  /\ w_pc = "start"
  /\ LET r == init_data_card IN
     /\ chips' = r.chips
     /\ sectors_per_chip' = r.sectors_per_chip
     /\ w_card_type' = r.card_type
     /\ is_orange_card' = r.is_orange_card
     /\ card_info' = r.card_info
     /\ IF r.err = "none"
        THEN w_pc' = "command" /\ w_result' = w_result
        ELSE w_pc' = "done" /\ w_result' = r.err
  /\ UNCHANGED <<w_cmd, has_card, card_iids, firmware, full_erase, file_exists,
                 file_size, card_image, erased, n_write_cmds, w_sent, card_size_min,
                 card_size_max, warned>>

\* `not card_size_min <= dev.get_total_size() <= card_size_max`
CardSizeOutOfRange ==
  ~(card_size_min <= get_total_size /\ get_total_size <= card_size_max)

\* cmd_write_database (lines 942-945) and _transfer_data_card (lines
\* 750-780) up to the call of _write_database: the user confirms or
\* cancels.  Neither calls dev.check_supports_write(); the card-size test
\* of _transfer_data_card (lines 757-764) prints a warning and goes on.
Confirm ==
  /\ UNCHANGED <<dvars, gvars, xvars>>
  /\ w_pc = "command"
  /\ warned' = (w_cmd = "transfer" /\ CardSizeOutOfRange)
  /\ \E answer \in {"y", "n"} :
       IF answer = "y"
       THEN w_pc' = "write" /\ w_result' = w_result
       ELSE w_pc' = "done" /\ w_result' = "Cancelled"
  /\ UNCHANGED <<w_cmd, has_card, card_iids, firmware, full_erase, file_exists,
                 file_size, card_image, chips, sectors_per_chip, w_card_type,
                 is_orange_card, erased, n_write_cmds, w_sent, card_info,
                 card_size_min, card_size_max>>

\* _write_database (lines 883-939): open(path) raises IOError for a file
\* that cannot be read, which cmd_write_database (lines 949-950) turns into
\* ProgrammingException "Could not read the database file" and
\* _transfer_data_card lets through; a file larger than the card raises
\* ProgrammingException, and line 895 reads ProgrammingDevice.SECTOR_SIZE,
\* which raises AttributeError: the blank check, the erase, the write and
\* the verification below it are never reached, and the programmer receives
\* no command.
WriteDatabase ==
  /\ UNCHANGED <<dvars, gvars, xvars>>
  /\ w_pc = "write"
  /\ w_pc' = "done"
  /\ w_result' =
       IF ~file_exists
       THEN (IF w_cmd = "write_database" THEN "FileError" ELSE "IOError")
       ELSE IF file_size > get_total_size THEN "TooBig"
       ELSE "AttributeError"
  /\ file_exists /\ file_size <= get_total_size => ~HasClassAttr("SECTOR_SIZE")
  /\ UNCHANGED <<w_cmd, has_card, card_iids, firmware, full_erase, file_exists,
                 file_size, card_image, chips, sectors_per_chip, w_card_type,
                 is_orange_card, erased, n_write_cmds, w_sent, card_info,
                 card_size_min, card_size_max, warned>>

\* largest number of chips of a card
MaxChips == 4

\* cards: no chip, and 1 to MaxChips equal chips of each kind; one card with
\* two different chips
Cards ==
  {[k \in 1..n |-> c] :
     n \in 0..MaxChips,
     c \in {<<0, key[2], 0, key[1]>> : key \in IID_MAP_KEYS} \cup {FAKE_CHIP}}
  \cup {<<CHIP_AMD_2MB, CHIP_AMD_4MB_SILVER>>,
        <<CHIP_INTEL_1MB, CHIP_INTEL_1MB, CHIP_AMD_2MB>>}

\* [card_size_min, card_size_max] of the service: 2 to 4 MiB, 16 MiB only,
\* 4 to 16 MiB
CardSizeRanges ==
  {<<2097152, 4194304>>, <<16777216, 16777216>>, <<4194304, 16777216>>}

\* file sizes: empty, a few bytes, one sector, one byte more, 2 MiB, 17 MiB
FileSizes == {0, 5, 65536, 65537, 2097152, 17825792}

\* a Skybound programmer has been opened and yielded by
\* open_programming_device, and a write command starts
WInit ==
  /\ w_pc = "start"
  /\ w_cmd \in {"write_database", "transfer"}
  /\ has_card \in BOOLEAN
  /\ card_iids \in Cards
  /\ firmware \in {"20071203", "20140530"}
  /\ full_erase \in BOOLEAN
  /\ file_exists \in BOOLEAN
  /\ file_size \in FileSizes
  /\ card_image \in {"blank", "file", "other"}
  /\ chips = 0
  /\ sectors_per_chip = 0
  /\ w_card_type = "NONE"
  /\ is_orange_card = FALSE
  /\ erased = {}
  /\ n_write_cmds = 0
  /\ w_sent = <<>>
  /\ w_result = "none"
  /\ card_info = ""
  /\ IF w_cmd = "transfer"
     THEN \E r \in CardSizeRanges : card_size_min = r[1] /\ card_size_max = r[2]
     ELSE card_size_min = 0 /\ card_size_max = 0
  /\ warned = FALSE

InitWrite == DIdle /\ GIdle /\ WInit /\ XIdle

NextWrite ==
  \/ WithDataCard
  \/ Confirm
  \/ WriteDatabase

SpecWrite == InitWrite /\ [][NextWrite]_vars

(***************************************************************************)
(* data_card/skybound.py: select_sector, translate_sector, read_blocks,   *)
(* erase_sectors and write_blocks on a NAVDATA card, against a programmer *)
(* that addresses its chips as the one of tests/test_skybound.py does.    *)
(* Lengths are counted in blocks of 0x1000 bytes.                          *)
(***************************************************************************)
\* generators the caller runs one after the other
MaxSkyOps == 2

\* sector_size // read_size and sector_size // max_write_size of NAVDATA
BlocksPerSector == NAVDATA.sector_size \div NAVDATA.read_size

\* a translate_sector that treats a 4 MiB chip like the smaller ones
translate_sector_flat(sector_id) ==
  MEMORY_OFFSETS[(sector_id \div k_spc) + 1] + (sector_id % k_spc)

\* SkyboundDevice.translate_sector
SkyboundDevice_translate_sector(sector_id) ==
  LET offset_id == sector_id \div k_spc IN
  IF k_spc > 32
  THEN LET offset_for_16mb == 512 * ((sector_id \div 32) % 2)
       IN MEMORY_OFFSETS[offset_id + 1] + (sector_id % 32) + offset_for_16mb
  ELSE MEMORY_OFFSETS[offset_id + 1] + (sector_id % k_spc)

\* The programmer's answer to 30 00 00 <physical sector>: the sector of the
\* card it selects, -1 when no chip is there.  The chips are tried in
\* order; a chip answers in [offset, offset + min(sectors, 0x20)) and, when
\* it has more than 0x20 sectors, in the same window 0x200 higher.
ChipWindow(chip_idx, physical_sector) ==
  LET offset  == MEMORY_OFFSETS[chip_idx + 1]
      sectors == Min(k_spc, 32)
  IN IF offset <= physical_sector /\ physical_sector < offset + sectors
     THEN chip_idx * k_spc + (physical_sector - offset)
     ELSE IF /\ k_spc > 32
             /\ offset + 512 <= physical_sector
             /\ physical_sector < offset + 512 + sectors
     THEN chip_idx * k_spc + (physical_sector - offset - 512 + 32)
     ELSE -1

DeviceSelect(physical_sector) ==
  LET hits == {c \in 0..(k_chips - 1) : ChipWindow(c, physical_sector) >= 0}
  IN IF hits = {} THEN -1
     ELSE ChipWindow(CHOOSE c \in hits : \A d \in hits : c <= d,
                     physical_sector)

\* select_sector as the programmer sees it
select_sector(sector_id) ==
  DeviceSelect(SkyboundDevice_translate_sector(sector_id))

KTotalSectors == k_chips * k_spc

\* a blank block (b'\xFF' * 0x1000)
EMPTY_BLOCK == <<-1, -1>>

\* A card image is kept as the set of <<block, data>> of its blocks that
\* are not blank.
BlockOf(image, b) ==
  IF \E e \in image : e[1] = b
  THEN (CHOOSE e \in image : e[1] = b)[2]
  ELSE EMPTY_BLOCK

Written(image) == {e[1] : e \in image}

\* start sectors the caller uses: the first sector, the last sector of the
\* first chip, the sector before the 0x20 boundary and the last sector of
\* the card
KSectors ==
  {s \in {0, 31, k_spc - 1, KTotalSectors - 1} : s < KTotalSectors}

\* lengths in blocks: one block, and one sector and a block (which goes on
\* into the next sector)
KLengths == {1, BlocksPerSector + 1}

\* the caller creates a generator; it stays on the card and writes only to
\* blocks it has not written since they were erased
KCall ==
  /\ UNCHANGED NotK
  /\ k_gen.kind = "none"
  /\ k_err = "none"
  /\ k_ops < MaxSkyOps
  /\ \E kind \in {"write", "read", "erase"} :
       \E sector \in KSectors :
         \E len \in KLengths :
           /\ kind = "erase" => len = 1
           /\ kind = "read" =>
                (len = 1 <=> sector = KTotalSectors - 1)
           /\ sector * BlocksPerSector + len <= KTotalSectors * BlocksPerSector
           /\ kind = "write" =>
                Written(k_logical)
                  \cap ((sector * BlocksPerSector)
                          .. (sector * BlocksPerSector + len - 1)) = {}
           /\ k_gen' = [kind |-> kind, sector |-> sector, idx |-> 0,
                        len |-> len, data |-> k_ops]
  /\ k_ops' = k_ops + 1
  /\ UNCHANGED <<k_chips, k_spc, k_blocks, k_logical, k_cur_sector,
                 k_cur_block, k_read_ok, k_err>>

\* One iteration of the loop of read_blocks (lines 173-183), write_blocks
\* (lines 203-216) or erase_sectors (lines 187-191) together with what the
\* programmer does with the commands of that iteration.
KStep ==
  /\ UNCHANGED NotK
  /\ k_gen.kind # "none"
  /\ LET block_idx == k_gen.idx
         logical   == k_gen.sector * BlocksPerSector + block_idx
         reselect  == k_gen.kind = "erase" \/ block_idx % BlocksPerSector = 0
         cur_s     == IF reselect
                      THEN select_sector(k_gen.sector
                                           + (block_idx \div BlocksPerSector))
                      ELSE k_cur_sector
         cur_b     == IF reselect
                      THEN (IF cur_s >= 0 THEN 0 ELSE -1)
                      ELSE k_cur_block
         dev_block == cur_s * BlocksPerSector + cur_b
         bad       == cur_s < 0 \/ cur_b < 0 \/ cur_b >= BlocksPerSector
         last      == k_gen.len = 1
     IN
     /\ k_cur_sector' = cur_s
     /\ k_gen' = IF last \/ bad
                 THEN [kind |-> "none", sector |-> 0, idx |-> 0, len |-> 0,
                       data |-> 0]
                 ELSE [k_gen EXCEPT !.idx = @ + 1, !.len = @ - 1]
     /\ IF bad
        THEN /\ k_err' = "no sector selected"
             /\ k_cur_block' = cur_b
             /\ UNCHANGED <<k_blocks, k_logical, k_read_ok>>
        ELSE IF k_gen.kind = "write"
        THEN /\ k_err' = IF dev_block \in Written(k_blocks)
                         THEN "Block has not been erased!" ELSE "none"
             /\ k_blocks' = {e \in k_blocks : e[1] # dev_block}
                              \cup {<<dev_block, <<k_gen.data, logical>>>>}
             /\ k_logical' = k_logical
                               \cup {<<logical, <<k_gen.data, logical>>>>}
             /\ k_cur_block' = cur_b + 1
             /\ UNCHANGED k_read_ok
        ELSE IF k_gen.kind = "read"
        THEN /\ k_read_ok' = (k_read_ok
                                /\ BlockOf(k_blocks, dev_block)
                                     = BlockOf(k_logical, logical))
             /\ k_cur_block' = cur_b + 1
             /\ UNCHANGED <<k_blocks, k_logical, k_err>>
        ELSE /\ k_blocks' = {e \in k_blocks :
                               e[1] \div BlocksPerSector # cur_s}
             /\ k_logical' = {e \in k_logical :
                                e[1] \div BlocksPerSector # k_gen.sector}
             /\ k_cur_block' = cur_b
             /\ UNCHANGED <<k_read_ok, k_err>>
  /\ UNCHANGED <<k_chips, k_spc, k_ops>>

\* a card of 2 to 4 chips of 1, 2 or 4 MiB has been identified
KInit ==
  /\ k_chips \in 2..Min(MaxChips, Len(MEMORY_OFFSETS))
  /\ k_spc \in {16, 32, 64}
  /\ k_blocks = {}
  /\ k_logical = {}
  /\ k_cur_sector = -1
  /\ k_cur_block = -1
  /\ k_gen = [kind |-> "none", sector |-> 0, idx |-> 0, len |-> 0, data |-> 0]
  /\ k_read_ok = TRUE
  /\ k_err = "none"
  /\ k_ops = 0

InitSkybound == DIdle /\ GIdle /\ WIdle /\ IdleBut("k") /\ KInit

NextSkybound ==
  \/ KCall
  \/ KStep

SpecSkybound == InitSkybound /\ [][NextSkybound]_vars

\* the programmer's block that the write or read of logical block i
\* reaches: the sector selected for its logical sector, and the block
\* counter the programmer advances from 0 by one per block
DeviceBlockOf(i) ==
  select_sector(i \div BlocksPerSector) * BlocksPerSector
    + (i % BlocksPerSector)

\* C13: on a Skybound card of 2 to 4 chips of 1, 2 or 4 MiB, blocks written
\* through select_sector + write_block to erased logical sectors are stored
\* at the same positions and read back unchanged: logical block i is the
\* programmer's block i (for 4 x 4 MiB chips, for all 4096 blocks), so two
\* logical sectors never select the same sector of the card.
\* (The last conjunct depends on the geometry alone, which no action
\* changes; it is evaluated where the card has just been identified.)
C13_LogicalIsPhysical ==
  /\ k_err = "none"
  /\ k_read_ok
  /\ k_blocks = k_logical
  /\ k_ops = 0 =>
       \A i \in 0..(KTotalSectors * BlocksPerSector - 1) : DeviceBlockOf(i) = i

\* on 4 chips of 4 MiB a write has gone over the 0x20 boundary of a chip and
\* a read over the same blocks has returned its last block
C13_Witness ==
  /\ k_chips = 4
  /\ k_spc = 64
  /\ KTotalSectors * BlocksPerSector = 4096
  /\ {31 * BlocksPerSector, 32 * BlocksPerSector} \subseteq Written(k_blocks)
  /\ k_ops = 2
  /\ k_gen.kind = "none"
  /\ k_read_ok
  /\ k_cur_sector = 32
  /\ k_cur_block = 1

(***************************************************************************)
(* taws_utils.py: translate_sector, as write_taws.py uses it               *)
(***************************************************************************)
\* sectors of the largest image and entries of the longest bad-sector list
MaxTawsSectors == 5
MaxBad == 3

RECURSIVE translate_sector_reversed(_, _)
\* a translate_sector whose comparison is the wrong way round
translate_sector_reversed(bad_sectors, sector) ==
  IF bad_sectors = <<>> THEN sector
  ELSE IF Head(bad_sectors) < sector THEN sector
  ELSE translate_sector_reversed(Tail(bad_sectors), sector + 1)

RECURSIVE translate_sector(_, _)
\* for bad_sector in bad_sectors: break at the first one above the running
\* sector, otherwise move the running sector on by one
translate_sector(bad_sectors, sector) ==
  IF bad_sectors = <<>> THEN sector
  ELSE IF Head(bad_sectors) > sector THEN sector
  ELSE translate_sector(Tail(bad_sectors), sector + 1)

\* good_sector_count = taws_image_sectors - len(bad_sectors)
good_sector_count == t_total - Len(t_bad)

\* the loop of write_taws.py over the logical sectors (taken from sector 0):
\* physical_sector = translate_sector(bad_sectors, logical_sector)
TTranslate ==
  /\ UNCHANGED NotT
  /\ Len(t_phys) < good_sector_count
  /\ t_phys' = Append(t_phys, translate_sector(t_bad, Len(t_phys)))
  /\ UNCHANGED <<t_bad, t_total>>

\* an image of 1 to MaxTawsSectors sectors and a list of up to MaxBad of
\* its sectors, in any order
TInit ==
  /\ t_total \in 1..MaxTawsSectors
  /\ t_bad \in SeqsUpTo(0..(t_total - 1), Min(MaxBad, t_total))
  /\ t_phys = <<>>

InitTaws == DIdle /\ GIdle /\ WIdle /\ IdleBut("t") /\ TInit

NextTaws == TTranslate

SpecTaws == InitTaws /\ [][NextTaws]_vars

\* C14: for any bad-sector list B of an image with `total` sectors and any
\* logical sector L < total - |B|, translate_sector(B, L) lies in
\* [0, total), is monotonic in L, and no two logical sectors are given the
\* same physical sector.
C14_TranslateSector ==
  /\ \A i \in 1..Len(t_phys) : 0 <= t_phys[i] /\ t_phys[i] < t_total
  /\ \A i, j \in 1..Len(t_phys) : i < j => t_phys[i] < t_phys[j]

\* sectors 1 and 3 of 5 are bad: the three good ones are 0, 2 and 4
C14_Witness ==
  /\ t_total = 5
  /\ t_bad = <<1, 3>>
  /\ t_phys = <<0, 2, 4>>

(***************************************************************************)
(* chartview.py: ChartView.process_charts_bin                              *)
(***************************************************************************)
\* input files of one merge and records of one input
MaxInputs == 2
MaxFiles == 2

\* ChartHeader.SIZE and ChartRecord.SIZE
ChartHeader_SIZE == 27
ChartRecord_SIZE == 40

RECURSIVE SumSizes(_)
\* the sum of the sizes of a sequence of records
SumSizes(records) ==
  IF records = <<>> THEN 0
  ELSE Head(records).size + SumSizes(Tail(records))

RECURSIVE SumOver(_, _)
\* sum(f(x)) over a sequence of inputs
SumOver(inputs, field) ==
  IF inputs = <<>> THEN 0
  ELSE (IF field = "num_files" THEN Len(Head(inputs).records)
        ELSE Head(inputs).index_offset - ChartHeader_SIZE)
       + SumOver(Tail(inputs), field)

\* lines 171-178: total_size += header.index_offset - ChartHeader.SIZE
total_size(inputs) == SumOver(inputs, "index_offset")

\* lines 171-178: total_files += header.num_files
total_files(inputs) == SumOver(inputs, "num_files")

RECURSIVE InsertByName(_, _)
\* where list.sort(key=name) puts a record among records already sorted:
\* behind every record whose name is not greater (the sort is stable)
InsertByName(sorted, record) ==
  IF sorted = <<>> THEN <<record>>
  ELSE IF Head(sorted).name <= record.name
       THEN <<Head(sorted)>> \o InsertByName(Tail(sorted), record)
       ELSE <<record>> \o sorted

RECURSIVE SortByName(_)
\* all_records.sort(key=lambda record: record.name)
SortByName(records) ==
  IF records = <<>> THEN <<>>
  ELSE InsertByName(SortByName(SubSeq(records, 1, Len(records) - 1)),
                    records[Len(records)])

\* the process ends with an exception
CRaise(what) ==
  /\ c_pc' = "done"
  /\ c_result' = what

\* lines 171-185: read the header of every input (a wrong magic raises
\* ValueError), write the new header, total_offset = ChartHeader.SIZE
CHeaders ==
  /\ UNCHANGED NotC
  /\ c_pc = "headers"
  /\ \E magic_ok \in BOOLEAN :
       IF ~magic_ok /\ c_inputs # <<>>
       THEN /\ CRaise("ValueError")
            /\ UNCHANGED <<c_header, c_total_offset, c_pos, c_i, c_j>>
       ELSE /\ c_header' = [num_files |-> total_files(c_inputs),
                            index_offset |-> total_size(c_inputs)
                                               + ChartHeader_SIZE]
            /\ c_pos' = ChartHeader_SIZE
            /\ c_total_offset' = ChartHeader_SIZE
            /\ c_i' = 1
            /\ c_j' = 0
            /\ c_pc' = "input"
            /\ c_result' = c_result
  /\ UNCHANGED <<c_inputs, c_all, c_index, c_index_pos>>

\* lines 187-207, and line 217 when the inputs are used up: read the
\* records of the next input at its index_offset and check its file name
CInput ==
  /\ UNCHANGED NotC
  /\ c_pc = "input"
  /\ IF c_i > Len(c_inputs)
     THEN /\ c_pc' = "index"
          /\ UNCHANGED <<c_all, c_j, c_result>>
     ELSE \E name_ok \in BOOLEAN :
            /\ c_all' = c_all \o c_inputs[c_i].records
            /\ IF name_ok
               THEN /\ c_pc' = "record"
                    /\ c_j' = 1
                    /\ c_result' = c_result
               ELSE /\ CRaise("ValueError")
                    /\ c_j' = c_j
  /\ UNCHANGED <<c_inputs, c_header, c_total_offset, c_pos, c_i, c_index,
                 c_index_pos>>

\* lines 209-215: one record of the current input: the assertion on its
\* size, the copy of its contents, its new offset
CRecord ==
  /\ UNCHANGED NotC
  /\ c_pc = "record"
  /\ IF c_j > Len(c_inputs[c_i].records)
     THEN /\ c_i' = c_i + 1
          /\ c_pc' = "input"
          /\ UNCHANGED <<c_all, c_total_offset, c_pos, c_j, c_result>>
     ELSE LET k == Len(c_all) - Len(c_inputs[c_i].records) + c_j
              record == c_all[k]
          IN IF ~(0 < record.size /\ record.size < 16777216)
             THEN /\ CRaise("AssertionError")
                  /\ UNCHANGED <<c_all, c_total_offset, c_pos, c_i, c_j>>
             ELSE /\ c_all' = [c_all EXCEPT ![k].offset = c_total_offset]
                  /\ c_total_offset' = c_total_offset + record.size
                  /\ c_pos' = c_pos + record.size
                  /\ c_j' = c_j + 1
                  /\ UNCHANGED <<c_i, c_pc, c_result>>
  /\ UNCHANGED <<c_inputs, c_header, c_index, c_index_pos>>

\* lines 217-223: sort the records by name, write them, write the checksum
\* into the first four bytes
CIndex ==
  /\ UNCHANGED NotC
  /\ c_pc = "index"
  /\ c_index' = SortByName(c_all)
  /\ c_index_pos' = c_pos
  /\ c_pos' = c_pos + ChartRecord_SIZE * Len(c_all)
  /\ c_pc' = "done"
  /\ c_result' = "ok"
  /\ UNCHANGED <<c_inputs, c_header, c_total_offset, c_i, c_j, c_all>>

\* The records of input i: record j is called <<j, i>>, so that the sort
\* interleaves the inputs; its payload lies anywhere in [27, index_offset).
Named(i, sizes) ==
  [j \in 1..Len(sizes) |->
     [name |-> j * 10 + i, offset |-> 0, size |-> sizes[j]]]

\* an input file: up to MaxFiles records of 0, 1 or 2 bytes, and an index
\* that follows the payload at once or after an unused byte
InputsOf(i) ==
  {[index_offset |-> ChartHeader_SIZE + SumSizes(Named(i, sizes)) + gap,
    records |-> Named(i, sizes)] :
     sizes \in SeqsUpTo(0..2, MaxFiles), gap \in 0..1}

CInit ==
  /\ \E n \in 0..MaxInputs :
       c_inputs \in {f \in [1..n -> UNION {InputsOf(i) : i \in 1..n}] :
                       \A i \in 1..n : f[i] \in InputsOf(i)}
  /\ c_pc = "headers"
  /\ c_header = [num_files |-> 0, index_offset |-> 0]
  /\ c_total_offset = 0
  /\ c_pos = 0
  /\ c_i = 0
  /\ c_j = 0
  /\ c_all = <<>>
  /\ c_index = <<>>
  /\ c_index_pos = 0
  /\ c_result = "none"

InitCharts == DIdle /\ GIdle /\ WIdle /\ IdleBut("c") /\ CInit

NextCharts ==
  \/ CHeaders
  \/ CInput
  \/ CRecord
  \/ CIndex

SpecCharts == InitCharts /\ [][NextCharts]_vars

\* C15: in the merged charts.bin the rewritten record offsets form a
\* contiguous partition of [27, index_offset): in payload order the first
\* record starts at 27, each record starts where the previous one ends and
\* the last record ends at the index_offset written in the new header; the
\* file's size is 27 + (sum of payload sizes) + 40 x (sum of num_files).
C15_OffsetsPartition ==
  c_result = "ok" =>
     /\ c_all # <<>> => c_all[1].offset = ChartHeader_SIZE
     /\ \A k \in 1..(Len(c_all) - 1) :
          c_all[k + 1].offset = c_all[k].offset + c_all[k].size
     /\ c_header.index_offset =
          IF c_all = <<>> THEN ChartHeader_SIZE
          ELSE c_all[Len(c_all)].offset + c_all[Len(c_all)].size
     /\ c_pos = ChartHeader_SIZE + SumSizes(c_all)
                  + ChartRecord_SIZE * total_files(c_inputs)

(***************************************************************************)
(* checksum.py: the CRC32Q and feat_unlk checksums.  A 32-bit value is the *)
(* tuple of its four bytes, the most significant one first.                *)
(***************************************************************************)
\* bytes fed one at a time
MaxLen == 3

RECURSIVE XorBits(_, _)
\* a ^ b of two naturals
XorBits(a, b) ==
  IF a = 0 THEN b
  ELSE IF b = 0 THEN a
  ELSE ((a + b) % 2) + 2 * XorBits(a \div 2, b \div 2)

\* a ^ b of two half bytes
XorNibble == [a \in 0..15 |-> [b \in 0..15 |-> XorBits(a, b)]]

\* a ^ b of two bytes
XorByte(a, b) ==
  16 * XorNibble[a \div 16][b \div 16] + XorNibble[(a % 16)][(b % 16)]

\* x ^ y of two 32-bit values
XorWord(x, y) == [k \in 1..4 |-> XorByte(x[k], y[k])]

ZERO == <<0, 0, 0, 0>>
\* the default initial value of feat_unlk_checksum, 0xFFFFFFFF
ALL_ONES == <<255, 255, 255, 255>>

\* 0x814141AB
CRC32Q_POLYNOMIAL == <<129, 65, 65, 171>>
\* 0x076dc419 and 0x77073096
FEAT_UNLK_POLYNOMIAL_1 == <<7, 109, 196, 25>>
FEAT_UNLK_POLYNOMIAL_2 == <<119, 7, 48, 150>>

\* (value << 1) & 0xFFFFFFFF
ShiftLeft1(value) ==
  [k \in 1..4 |-> ((2 * value[k]) % 256)
                    + (IF k < 4 THEN value[k + 1] \div 128 ELSE 0)]

RECURSIVE TableEntry(_, _, _)
\* the inner loop of _create_lookup_table: `rounds` more rounds on value
TableEntry(polynomial, value, rounds) ==
  IF rounds = 0 THEN value
  ELSE TableEntry(polynomial,
                  IF value[1] >= 128
                  THEN XorWord(ShiftLeft1(value), polynomial)
                  ELSE ShiftLeft1(value),
                  rounds - 1)

\* _create_lookup_table(polynomial, length), indexed from 0
create_lookup_table(polynomial, length) ==
  [index \in 0..(length - 1) |->
     TableEntry(polynomial, <<index, 0, 0, 0>>, 8)]

crc32q_lookup_table == create_lookup_table(CRC32Q_POLYNOMIAL, 256)

FeatTable1 == create_lookup_table(FEAT_UNLK_POLYNOMIAL_1, 64)
FeatTable2 == create_lookup_table(FEAT_UNLK_POLYNOMIAL_2, 4)

\* [x ^ y for x in table 1 for y in table 2]
feat_unlk_lookup_table ==
  [index \in 0..255 |->
     XorWord(FeatTable1[index \div 4], FeatTable2[index % 4])]

\* one round of crc32q_checksum that takes the index from the low byte
Crc32qStep_low_byte(value, b) ==
  XorWord(crc32q_lookup_table[XorByte(b, value[4])],
          <<value[2], value[3], value[4], 0>>)

\* one round of the loop of crc32q_checksum:
\* index = b ^ (value >> 24); table[index] ^ ((value & 0x00FFFFFF) << 8)
Crc32qStep(value, b) ==
  XorWord(crc32q_lookup_table[XorByte(b, value[1])],
          <<value[2], value[3], value[4], 0>>)

\* one round of the loop of feat_unlk_checksum:
\* index = b ^ (value & 0xFF); table[index] ^ (value >> 8)
FeatUnlkStep(value, b) ==
  XorWord(feat_unlk_lookup_table[XorByte(b, value[4])],
          <<0, value[1], value[2], value[3]>>)

RECURSIVE Crc32qOver(_, _, _, _)
\* the loop of crc32q_checksum over data[lo..hi]; the test of the length of
\* value makes TLC compute the value of the first half before it descends
\* into the second one
Crc32qOver(data, lo, hi, value) ==
  IF Len(value) # 4 \/ lo > hi THEN value
  ELSE IF lo = hi THEN Crc32qStep(value, data[lo])
  ELSE LET mid == (lo + hi) \div 2
       IN Crc32qOver(data, mid + 1, hi, Crc32qOver(data, lo, mid, value))

RECURSIVE FeatUnlkOver(_, _, _, _)
\* the loop of feat_unlk_checksum over data[lo..hi]
FeatUnlkOver(data, lo, hi, value) ==
  IF Len(value) # 4 \/ lo > hi THEN value
  ELSE IF lo = hi THEN FeatUnlkStep(value, data[lo])
  ELSE LET mid == (lo + hi) \div 2
       IN FeatUnlkOver(data, mid + 1, hi, FeatUnlkOver(data, lo, mid, value))

crc32q_checksum(data, value) == Crc32qOver(data, 1, Len(data), value)

feat_unlk_checksum(data, value) == FeatUnlkOver(data, 1, Len(data), value)

\* int.to_bytes(4, 'big') and int.to_bytes(4, 'little')
to_bytes_big(value) == value
to_bytes_little(value) == <<value[4], value[3], value[2], value[1]>>

\* b'hello world' of the tests
HelloWorld == <<104, 101, 108, 108, 111, 32, 119, 111, 114, 108, 100>>

\* the bytes fed to the checksums
FedBytes == {0, 1, 128, 255}

\* one more call with the value of the last one, as test_crc32q_initial and
\* test_feat_unlk_initial do
HFeed ==
  /\ UNCHANGED NotH
  /\ h_closed_q = <<>>
  /\ h_closed_f = <<>>
  /\ \E b \in FedBytes :
       /\ Len(h_data) < MaxLen + (IF h_data = <<>> THEN 0
                                  ELSE IF h_data[1] = HelloWorld[1]
                                       THEN Len(HelloWorld) ELSE 0)
       /\ h_data' = Append(h_data, b)
       /\ h_q' = crc32q_checksum(<<b>>, h_q)
       /\ h_f' = feat_unlk_checksum(<<b>>, h_f)
  /\ UNCHANGED <<h_closed_q, h_closed_f>>

\* test_crc32q: the checksum of the data and the big-endian bytes of its
\* checksum
HCloseQ ==
  /\ UNCHANGED NotH
  /\ h_closed_q = <<>>
  /\ h_closed_q' =
       <<crc32q_checksum(
           h_data \o to_bytes_big(crc32q_checksum(h_data, ZERO)), ZERO)>>
  /\ UNCHANGED <<h_data, h_q, h_f, h_closed_f>>

\* test_feat_unlk: the checksum of the data and the little-endian bytes of
\* its checksum
HCloseF ==
  /\ UNCHANGED NotH
  /\ h_closed_f = <<>>
  /\ h_closed_f' =
       <<feat_unlk_checksum(
           h_data \o to_bytes_little(feat_unlk_checksum(h_data, ALL_ONES)),
           ALL_ONES)>>
  /\ UNCHANGED <<h_data, h_q, h_f, h_closed_q>>

HInit ==
  /\ h_data \in {<<>>, HelloWorld}
  /\ h_q = crc32q_checksum(h_data, ZERO)
  /\ h_f = feat_unlk_checksum(h_data, ALL_ONES)
  /\ h_closed_q = <<>>
  /\ h_closed_f = <<>>

InitChecksum == DIdle /\ GIdle /\ WIdle /\ IdleBut("h") /\ HInit

NextChecksum ==
  \/ HFeed
  \/ HCloseQ
  \/ HCloseF

SpecChecksum == InitChecksum /\ [][NextChecksum]_vars

\* C17: CRC closure: for any byte string b, CRC32Q of b followed by the four
\* big-endian bytes of CRC32Q(b) is 0, and the feat-unlk checksum of b
\* followed by the four little-endian bytes of FeatUnlk(b) is 0.
C17_CrcClosure ==
  /\ h_closed_q # <<>> => h_closed_q = <<ZERO>>
  /\ h_closed_f # <<>> => h_closed_f = <<ZERO>>

\* both closures taken of b'hello world' and one more byte, whose checksums
\* are not zero themselves; the checksums of b'hello world' are the tests'
C17_Witness ==
  /\ Len(h_data) = Len(HelloWorld) + 1
  /\ SubSeq(h_data, 1, Len(HelloWorld)) = HelloWorld
  /\ crc32q_checksum(HelloWorld, ZERO) = <<19, 170, 147, 86>>
  /\ feat_unlk_checksum(HelloWorld, ALL_ONES) = <<242, 181, 238, 122>>
  /\ h_q # ZERO
  /\ h_f # ZERO
  /\ h_q = crc32q_checksum(h_data, ZERO)
  /\ h_f = feat_unlk_checksum(h_data, ALL_ONES)
  /\ h_closed_q = <<ZERO>>
  /\ h_closed_f = <<ZERO>>

(***************************************************************************)
(* featunlk.py: update_feat_unlk and the checks of                         *)
(* display_content_of_feat_unlk                                            *)
(***************************************************************************)
CONTENT1_LEN == 85
CONTENT2_LEN == 824
SEC_ID_OFFSET == 191
\* MAGIC1.to_bytes(2, 'little'), MAGIC2.to_bytes(4, 'little') and
\* MAGIC3.to_bytes(2, 'little')
MAGIC1_bytes == <<1, 0>>
MAGIC2_bytes == <<154, 50, 72, 118>>
MAGIC3_bytes == <<1, 101>>
NAVIGATION_PREVIEW_START == 129
NAVIGATION_PREVIEW_END == 146

\* twenty features whose offsets are 909 bytes apart
Feature_packed ==
  [k \in 1..20 |-> [name |-> "FEATURE", offset |-> 909 * (k - 1), bit |-> 0]]

\* class Feature: the offset in feat_unlk.dat and the bit of each feature
Feature == <<
  [name |-> "NAVIGATION", offset |-> 0, bit |-> 0],
  [name |-> "CONFIG_ENABLE", offset |-> 913, bit |-> 2],
  [name |-> "TERRAIN", offset |-> 1826, bit |-> 3],
  [name |-> "OBSTACLE", offset |-> 2739, bit |-> 4],
  [name |-> "APT_TERRAIN", offset |-> 3652, bit |-> 5],
  [name |-> "CHARTVIEW", offset |-> 4565, bit |-> 6],
  [name |-> "SAFETAXI", offset |-> 5478, bit |-> 7],
  [name |-> "FLITE_CHARTS", offset |-> 6391, bit |-> 8],
  [name |-> "BASEMAP", offset |-> 7304, bit |-> 10],
  [name |-> "AIRPORT_DIR", offset |-> 8217, bit |-> 10],
  [name |-> "AIR_SPORT", offset |-> 9130, bit |-> 10],
  [name |-> "NAVIGATION_2", offset |-> 10043, bit |-> 10],
  [name |-> "SECTIONALS", offset |-> 10956, bit |-> 10],
  [name |-> "OBSTACLE2", offset |-> 11869, bit |-> 10],
  [name |-> "NAV_DB2", offset |-> 12782, bit |-> 10],
  [name |-> "NAV_DB2_STBY", offset |-> 13695, bit |-> 10],
  [name |-> "SYSTEM_COPY", offset |-> 14608, bit |-> 11],
  [name |-> "CONFIG_ENABLE_NO_SERNO", offset |-> 15521, bit |-> 2],
  [name |-> "SAFETAXI2", offset |-> 16434, bit |-> 10],
  [name |-> "BASEMAP2", offset |-> 17347, bit |-> 10] >>

\* n zero bytes; b'\x00' * n is empty when n is negative
Zeros(n) == [k \in 1..n |-> 0]

\* (n).to_bytes(2, 'little') and (n).to_bytes(4, 'little') of a small n
Int2LE(n) == <<n % 256, (n \div 256) % 256>>
Int4LE(n) ==
  <<n % 256, (n \div 256) % 256, (n \div 65536) % 256, n \div 16777216>>

\* 1 << bit
Shl1(bit) == IF bit = 0 THEN 1 ELSE 2 ^ bit

\* encode_volume_id: ~((vol_id << 31 & 0xFFFFFFFF) | (vol_id >> 1)): every
\* bit moves one place down, the lowest one to the top, and is inverted
encode_volume_id(vol_id) ==
  [k \in 1..4 |->
     255 - ((vol_id[k] \div 2)
              + 128 * (vol_id[IF k = 1 THEN 4 ELSE k - 1] % 2))]

\* truncate_system_id: (system_id & 0xFFFFFFFF) + (system_id >> 32), as
\* <<what goes beyond 32 bits, the lower 32 bits>>
truncate_system_id(system_id) ==
  LET hi == system_id[1]
      lo == system_id[2]
      s4 == hi[4] + lo[4]
      s3 == hi[3] + lo[3] + (s4 \div 256)
      s2 == hi[2] + lo[2] + (s3 \div 256)
      s1 == hi[1] + lo[1] + (s2 \div 256)
  IN <<s1 \div 256, <<s1 % 256, s2 % 256, s3 % 256, s4 % 256>>>>

\* lines 150-171: content1 before its checksum
Content1Body(feature, vol_id, security_id, checksum, preview) ==
  LET head == MAGIC1_bytes
                \o Int2LE((security_id - SEC_ID_OFFSET + 65536) % 65536)
                \o MAGIC2_bytes
                \o Int4LE(Shl1(Feature[feature].bit))
                \o Int4LE(0)
                \o to_bytes_little(encode_volume_id(vol_id))
                \o (IF Feature[feature].name = "NAVIGATION"
                    THEN MAGIC3_bytes ELSE <<>>)
                \o to_bytes_little(checksum)
                \o (IF Feature[feature].name = "NAVIGATION"
                    THEN preview.bytes
                    ELSE Zeros(NAVIGATION_PREVIEW_END
                                 - NAVIGATION_PREVIEW_START))
  IN head \o Zeros(CONTENT1_LEN - Len(head) - 4)

\* lines 177-183: content2 before its checksum
Content2Body(system_id) ==
  LET head == Int4LE(0) \o to_bytes_little(truncate_system_id(system_id)[2])
  IN head \o Zeros(CONTENT2_LEN - Len(head) - 4)

\* the closing checksum of content1 and content2 taken from 0, not from the
\* default 0xFFFFFFFF
Closed_from_zero(body) ==
  body \o to_bytes_little(feat_unlk_checksum(body, ZERO))

\* lines 173-174 and 185-186: the body and its checksum
Closed(body) ==
  body \o to_bytes_little(feat_unlk_checksum(body, ALL_ONES))

\* what makes update_feat_unlk raise: the assertion on the preview (166),
\* a system id that does not fit four bytes (181), a content1 that is not
\* CONTENT1_LEN long (175); "none" otherwise
UpdateRaises(feature, system_id, preview) ==
  IF /\ Feature[feature].name = "NAVIGATION"
     /\ \/ ~preview.given
        \/ Len(preview.bytes) # NAVIGATION_PREVIEW_END
                                  - NAVIGATION_PREVIEW_START
  THEN "AssertionError"
  ELSE IF truncate_system_id(system_id)[1] # 0
  THEN "OverflowError"
  ELSE "none"

\* out.seek(offset); out.write(data): the bytes of the file that the new
\* ones do not cover stay
FileWrite(file, offset, data) ==
  LET end == offset + Len(data)
      Before(e) == [offset |-> e.offset,
                    data |-> SubSeq(e.data, 1, offset - e.offset)]
      After(e) == [offset |-> end,
                   data |-> SubSeq(e.data, end - e.offset + 1, Len(e.data))]
  IN {e \in file : e.offset + Len(e.data) <= offset \/ e.offset >= end}
       \cup {Before(e) : e \in {x \in file : x.offset < offset
                                  /\ x.offset + Len(x.data) > offset}}
       \cup {After(e) : e \in {x \in file : x.offset < end
                                 /\ x.offset + Len(x.data) > end}}
       \cup {[offset |-> offset, data |-> data]}

\* the size of the file
FileSize(file) ==
  IF file = {} THEN 0
  ELSE CHOOSE n \in {e.offset + Len(e.data) : e \in file} :
         \A e \in file : e.offset + Len(e.data) <= n

\* the byte at pos: a written one, or the zero of a hole
FileByte(file, pos) ==
  IF \E e \in file : e.offset <= pos /\ pos < e.offset + Len(e.data)
  THEN LET e == CHOOSE x \in file :
                  x.offset <= pos /\ pos < x.offset + Len(x.data)
       IN e.data[pos - e.offset + 1]
  ELSE 0

\* fd.seek(offset); fd.read(n): short at the end of the file
FileRead(file, offset, n) ==
  [k \in 1..(Min(offset + n, FileSize(file)) - offset) |->
     FileByte(file, offset + k - 1)]

\* update_feat_unlk, lines 146-198
UUpdate ==
  /\ UNCHANGED NotU
  /\ u_pc = "call"
  /\ IF UpdateRaises(u_feature, u_system_id, u_preview) # "none"
     THEN /\ u_pc' = "raised"
          /\ UNCHANGED <<u_file, u_written>>
     ELSE LET content1 == Closed(Content1Body(u_feature, u_vol_id,
                                   u_security_id, u_checksum, u_preview))
              content2 == Closed(Content2Body(u_system_id))
              chk3 == feat_unlk_checksum(content1 \o content2, ALL_ONES)
          IN /\ u_file' = FileWrite(u_file, Feature[u_feature].offset,
                            content1 \o content2 \o to_bytes_little(chk3))
             /\ u_written' = u_written \cup {u_feature}
             /\ u_pc' = "written"
  /\ UNCHANGED <<u_feature, u_vol_id, u_security_id, u_system_id,
                 u_checksum, u_preview, u_checks>>

\* display_content_of_feat_unlk, lines 247-266: the three checksums of the
\* slot of the feature
UDisplay ==
  /\ UNCHANGED NotU
  /\ u_pc = "written"
  /\ LET offset == Feature[u_feature].offset
         content1_bytes == FileRead(u_file, offset, CONTENT1_LEN)
         content2_bytes == FileRead(u_file, offset + CONTENT1_LEN,
                                    CONTENT2_LEN)
         overall_chk == FileRead(u_file,
                          offset + CONTENT1_LEN + CONTENT2_LEN, 4)
     IN u_checks' = <<feat_unlk_checksum(content1_bytes, ALL_ONES),
                      feat_unlk_checksum(content2_bytes, ALL_ONES),
                      feat_unlk_checksum(content2_bytes \o overall_chk,
                                         ZERO)>>
  /\ u_pc' = "displayed"
  /\ UNCHANGED <<u_feature, u_vol_id, u_security_id, u_system_id,
                 u_checksum, u_preview, u_file, u_written>>

\* the arguments the calls are made with
VolumeIds == {<<18, 52, 86, 120>>, <<255, 255, 255, 255>>}
SecurityIds == {0, 200}
SystemIds == {<<ZERO, <<0, 0, 0, 42>>>>,
              <<<<0, 0, 1, 0>>, <<170, 187, 204, 221>>>>,
              <<<<0, 0, 0, 1>>, ALL_ONES>>}
FileChecksums == {ZERO, <<19, 170, 147, 86>>}
Previews == {[given |-> FALSE, bytes |-> <<>>],
             [given |-> TRUE, bytes |-> [k \in 1..17 |-> 64 + k]],
             [given |-> TRUE, bytes |-> <<1, 2, 3>>]}

UInit ==
  /\ u_feature \in 1..Len(Feature)
  /\ u_vol_id \in VolumeIds
  /\ u_security_id \in SecurityIds
  /\ u_system_id \in SystemIds
  /\ u_checksum \in FileChecksums
  /\ u_preview \in IF Feature[u_feature].name = "NAVIGATION"
                   THEN Previews
                   ELSE {[given |-> FALSE, bytes |-> <<>>]}
  /\ u_pc = "call"
  /\ u_file = {}
  /\ u_checks = <<>>
  /\ u_written = {}

InitFeatUnlk == DIdle /\ GIdle /\ WIdle /\ IdleBut("u") /\ UInit

NextFeatUnlk ==
  \/ UUpdate
  \/ UDisplay

SpecFeatUnlk == InitFeatUnlk /\ [][NextFeatUnlk]_vars

\* C16: every slot written by update_feat_unlk passes the verification path:
\* for any feature, volume id, security id, system id, file CRC and preview
\* the stored Content-1 (85 bytes) and Content-2 (824 bytes) each have
\* feat-unlk checksum zero, and the stream of Content-2 followed by the
\* overall CRC has feat-unlk checksum zero (taken from 0, as the
\* verification takes it).
C16_SlotVerifies ==
  u_pc = "displayed" =>
     /\ u_checks = <<ZERO, ZERO, ZERO>>
     /\ LET offset == Feature[u_feature].offset
        IN /\ Len(FileRead(u_file, offset, CONTENT1_LEN)) = CONTENT1_LEN
           /\ Len(FileRead(u_file, offset + CONTENT1_LEN, CONTENT2_LEN))
                = CONTENT2_LEN
           /\ FileSize(u_file) = offset + CONTENT1_LEN + CONTENT2_LEN + 4

\* the slot of NAVIGATION with a preview, written and verified
C16_Witness ==
  /\ u_pc = "displayed"
  /\ Feature[u_feature].name = "NAVIGATION"
  /\ u_preview.given
  /\ u_checksum # ZERO
  /\ u_checks = <<ZERO, ZERO, ZERO>>
  /\ FileRead(u_file, 0, 4) = <<1, 0, 9, 0>>
  /\ SubSeq(FileRead(u_file, 0, CONTENT1_LEN), 27, 43)
       = [k \in 1..17 |-> 64 + k]

(***************************************************************************)
(* featunlk.py: the slots of feat_unlk.dat that several calls of           *)
(* update_feat_unlk write                                                  *)
(***************************************************************************)
\* calls of update_feat_unlk for different features
MaxUpdates == 2

\* g1000.py, class Feature: the offsets and bits of the twelve features of
\* the older copy of the module, the one main.py imports
G1000_Feature == <<
  [name |-> "NAVIGATION", offset |-> 0, bit |-> 0],
  [name |-> "TERRAIN", offset |-> 1826, bit |-> 3],
  [name |-> "APT_TERRAIN", offset |-> 3652, bit |-> 5],
  [name |-> "CHARTVIEW", offset |-> 4565, bit |-> 6],
  [name |-> "SAFETAXI", offset |-> 5478, bit |-> 7],
  [name |-> "BASEMAP", offset |-> 7304, bit |-> 10],
  [name |-> "AIRPORT_DIR", offset |-> 8217, bit |-> 10],
  [name |-> "AIR_SPORT", offset |-> 9130, bit |-> 10],
  [name |-> "OBSTACLE2", offset |-> 11869, bit |-> 10],
  [name |-> "NAV_DB2", offset |-> 12782, bit |-> 10],
  [name |-> "SAFETAXI2", offset |-> 16434, bit |-> 10],
  [name |-> "BASEMAP2", offset |-> 17347, bit |-> 10] >>

\* the offsets of a table of features are pairwise at least n bytes apart
OffsetsApart(features, n) ==
  \A f, g \in 1..Len(features) :
    f # g => \/ features[f].offset - features[g].offset >= n
             \/ features[g].offset - features[f].offset >= n

\* the bytes one call writes: content1, content2 and the overall checksum
SlotLen == CONTENT1_LEN + CONTENT2_LEN + 4

\* the slot of a feature with its contents left out: every byte holds the
\* number of the feature
SlotOf(feature) == [k \in 1..SlotLen |-> feature]

\* lines 192-198 of update_feat_unlk: seek to the offset of the feature and
\* write the slot
UWriteSlot ==
  /\ UNCHANGED NotU
  /\ u_pc = "slots"
  /\ \E feature \in 1..Len(Feature) :
       /\ Cardinality(u_written \cup {feature}) <= MaxUpdates
       /\ u_file' = FileWrite(u_file, Feature[feature].offset,
                              SlotOf(feature))
       /\ u_written' = u_written \cup {feature}
  /\ UNCHANGED <<u_feature, u_vol_id, u_security_id, u_system_id,
                 u_checksum, u_preview, u_pc, u_checks>>

USlotsInit ==
  /\ u_feature = 0
  /\ u_vol_id = ZERO
  /\ u_security_id = 0
  /\ u_system_id = <<ZERO, ZERO>>
  /\ u_checksum = ZERO
  /\ u_preview = [given |-> FALSE, bytes |-> <<>>]
  /\ u_pc = "slots"
  /\ u_file = {}
  /\ u_checks = <<>>
  /\ u_written = {}

InitSlots == DIdle /\ GIdle /\ WIdle /\ IdleBut("u") /\ USlotsInit

NextSlots == UWriteSlot

SpecSlots == InitSlots /\ [][NextSlots]_vars

\* C20: the twenty feature offsets of feat_unlk.dat are pairwise at least
\* 913 bytes apart, so the 913-byte slot written for one feature never
\* overlaps the slot of another feature: every slot written is still whole
\* after the later writes.
C20_SlotsApart ==
  /\ Len(Feature) = 20
  /\ SlotLen = 913
  /\ OffsetsApart(Feature, SlotLen)
  /\ OffsetsApart(G1000_Feature, SlotLen)
  /\ \A g \in 1..Len(G1000_Feature) :
       \E f \in 1..Len(Feature) : Feature[f] = G1000_Feature[g]
  /\ \A f \in u_written :
       FileRead(u_file, Feature[f].offset, SlotLen) = SlotOf(f)

\* the slots of two neighbours written
C20_Witness ==
  /\ u_pc = "slots"
  /\ u_written = {1, 2}
  /\ FileSize(u_file) = 2 * SlotLen
  /\ FileByte(u_file, SlotLen - 1) = 1
  /\ FileByte(u_file, SlotLen) = 2

(***************************************************************************)
(* dbf.py: DbfFile.read_record and DbfFile.write_record.  A string is the  *)
(* sequence of its characters.                                             *)
(***************************************************************************)
\* fields of a record
MaxFields == 2

Digits == <<"0", "1", "2", "3", "4", "5", "6", "7", "8", "9">>

\* the digit a character stands for, -1 when it is no digit
DigitOf(c) ==
  IF \E k \in 1..10 : Digits[k] = c
  THEN (CHOOSE k \in 1..10 : Digits[k] = c) - 1
  ELSE -1

RECURSIVE LStrip(_)
\* str.lstrip(' ')
LStrip(s) ==
  IF s # <<>> /\ Head(s) = " " THEN LStrip(Tail(s)) ELSE s

RECURSIVE RStrip(_)
\* str.rstrip(' ')
RStrip(s) ==
  IF s # <<>> /\ s[Len(s)] = " " THEN RStrip(SubSeq(s, 1, Len(s) - 1)) ELSE s

\* str.strip(' ')
Strip(s) == LStrip(RStrip(s))

\* str.ljust(length): never shortens
LJust(s, length) == s \o [k \in 1..(length - Len(s)) |-> " "]

\* all characters are digits, and there is one
IsDecimal(s) == s # <<>> /\ \A k \in 1..Len(s) : DigitOf(s[k]) >= 0

RECURSIVE ParseInt(_)
\* int(s) of decimal digits
ParseInt(s) ==
  IF s = <<>> THEN 0
  ELSE 10 * ParseInt(SubSeq(s, 1, Len(s) - 1)) + DigitOf(s[Len(s)])

RECURSIVE StrInt(_)
\* str(n) of a natural number
StrInt(n) ==
  IF n < 10 THEN <<Digits[n + 1]>>
  ELSE StrInt(n \div 10) \o <<Digits[(n % 10) + 1]>>

\* n in decimal, zero-padded to width digits
ZeroPadded(n, width) ==
  LET s == StrInt(n) IN [k \in 1..(width - Len(s)) |-> "0"] \o s

DaysInMonth(y, m) ==
  IF m \in {4, 6, 9, 11} THEN 30
  ELSE IF m # 2 THEN 31
  ELSE IF (y % 4 = 0 /\ y % 100 # 0) \/ y % 400 = 0 THEN 29
  ELSE 28

\* datetime.strptime(s, '%Y%m%d').date() of eight characters: <<y, m, d>>,
\* or <<>> where it raises ValueError
StrpDate(s) ==
  IF Len(s) # 8 \/ ~IsDecimal(s) THEN <<>>
  ELSE LET y == ParseInt(SubSeq(s, 1, 4))
           m == ParseInt(SubSeq(s, 5, 6))
           d == ParseInt(SubSeq(s, 7, 8))
       IN IF y >= 1 /\ m \in 1..12 /\ d \in 1..DaysInMonth(y, m)
          THEN <<y, m, d>>
          ELSE <<>>

\* date.strftime('%Y%m%d') of a year of four digits
StrfDate(date) ==
  ZeroPadded(date[1], 4) \o ZeroPadded(date[2], 2) \o ZeroPadded(date[3], 2)

\* the values of read_record
NoneValue == [kind |-> "None", text |-> <<>>, num |-> 0, date |-> <<>>]
StrValue(s) == [kind |-> "str", text |-> s, num |-> 0, date |-> <<>>]
IntValue(n) == [kind |-> "int", text |-> <<>>, num |-> n, date |-> <<>>]
BoolValue(b) ==
  [kind |-> "bool", text |-> <<>>, num |-> IF b THEN 1 ELSE 0, date |-> <<>>]
DateValue(d) == [kind |-> "date", text |-> <<>>, num |-> 0, date |-> d]
Raised == [kind |-> "raise", text |-> <<>>, num |-> 0, date |-> <<>>]

\* lines 85-107: the value of one field, Raised where read_record raises
ReadField(type, raw) ==
  LET data == Strip(raw)
  IN CASE type = "C" -> StrValue(data)
       [] type = "D" ->
            IF data = <<>> THEN NoneValue
            ELSE IF StrpDate(data) = <<>> THEN Raised
            ELSE DateValue(StrpDate(data))
       [] type = "L" ->
            IF Len(data) # 1 THEN Raised
            ELSE IF data[1] \in {"Y", "y", "T", "t"} THEN BoolValue(TRUE)
            ELSE IF data[1] \in {"N", "n", "F", "f"} THEN BoolValue(FALSE)
            ELSE IF data[1] = "?" THEN NoneValue
            ELSE Raised
       [] type \in {"M", "N"} ->
            IF data = <<>> THEN NoneValue
            ELSE IF IsDecimal(data) THEN IntValue(ParseInt(data))
            ELSE Raised
       [] OTHER -> Raised

\* lines 114-137: the bytes of one field, <<"raise">> where write_record
\* raises
WriteField(type, length, value) ==
  CASE type = "C" ->
         IF value.kind = "None" THEN <<"raise">>
         ELSE LJust(value.text, length)
    [] type = "D" ->
         IF value.kind = "None" THEN LJust(<<>>, length)
         ELSE LJust(StrfDate(value.date), length)
    [] type = "L" ->
         LJust(IF value.kind = "None" THEN <<"?">>
               ELSE IF value.num = 1 THEN <<"T">> ELSE <<"F">>, length)
    [] type \in {"M", "N"} ->
         LJust(IF value.kind = "None" THEN <<>> ELSE StrInt(value.num),
               length)
    [] OTHER -> <<"raise">>

\* where in the record field k starts
RECURSIVE FieldStart(_, _)
FieldStart(fields, k) ==
  IF k = 1 THEN 2
  ELSE FieldStart(fields, k - 1) + fields[k - 1].length

\* the bytes of field k of a record
RawField(fields, record, k) ==
  SubSeq(record, FieldStart(fields, k),
         FieldStart(fields, k) + fields[k].length - 1)

RECURSIVE Flatten(_)
Flatten(parts) ==
  IF parts = <<>> THEN <<>> ELSE Head(parts) \o Flatten(Tail(parts))

\* read_record, lines 74-109
DRead ==
  /\ UNCHANGED NotB
  /\ dbf_pc = "read"
  /\ LET values == [k \in 1..Len(dbf_fields) |->
                      ReadField(dbf_fields[k].type,
                                RawField(dbf_fields, dbf_record, k))]
     IN IF dbf_record[1] # " " \/ \E k \in 1..Len(values) : values[k] = Raised
        THEN /\ dbf_pc' = "raised"
             /\ dbf_values' = dbf_values
        ELSE /\ dbf_pc' = "write"
             /\ dbf_values' = values
  /\ UNCHANGED <<dbf_fields, dbf_record, dbf_out>>

\* write_record, lines 111-137
DWrite ==
  /\ UNCHANGED NotB
  /\ dbf_pc = "write"
  /\ LET parts == [k \in 1..Len(dbf_fields) |->
                     WriteField(dbf_fields[k].type, dbf_fields[k].length,
                                dbf_values[k])]
     IN IF \E k \in 1..Len(parts) : parts[k] = <<"raise">>
        THEN /\ dbf_pc' = "raised"
             /\ dbf_out' = dbf_out
        ELSE /\ dbf_pc' = "done"
             /\ dbf_out' = <<" ">> \o Flatten(parts)
  /\ UNCHANGED <<dbf_fields, dbf_record, dbf_values>>

\* the fields of the records: a type and a length
FieldKinds ==
  {[type |-> "C", length |-> 2], [type |-> "D", length |-> 8],
   [type |-> "L", length |-> 1], [type |-> "M", length |-> 3],
   [type |-> "N", length |-> 3], [type |-> "F", length |-> 1]}

\* the contents of a field of a record
FieldContents(type) ==
  CASE type = "C" -> {<<" ", " ">>, <<"a", " ">>, <<" ", "a">>, <<"a", "b">>}
    [] type = "D" ->
         {<<" ", " ", " ", " ", " ", " ", " ", " ">>,
          <<"2", "0", "2", "4", "0", "2", "2", "9">>,
          <<"1", "9", "9", "9", "1", "2", "3", "1">>,
          <<"2", "0", "2", "3", "0", "2", "2", "9">>}
    [] type = "L" -> {<<"T">>, <<"F">>, <<"?">>, <<"Y">>, <<"n">>, <<" ">>}
    [] type \in {"M", "N"} ->
         {<<" ", " ", " ">>, <<"7", " ", " ">>, <<"1", "2", "0">>,
          <<" ", "1", "2">>, <<"0", "1", "2">>}
    [] OTHER -> {<<"1">>}

DInitRecord ==
  /\ dbf_fields \in SeqsUpTo(FieldKinds, MaxFields)
  /\ \E marker \in {" ", "*"} :
       \E contents \in [1..Len(dbf_fields) ->
                          UNION {FieldContents(k.type) : k \in FieldKinds}] :
         /\ \A k \in 1..Len(dbf_fields) :
              contents[k] \in FieldContents(dbf_fields[k].type)
         /\ dbf_record = <<marker>> \o Flatten(contents)
  /\ dbf_pc = "read"
  /\ dbf_values = <<>>
  /\ dbf_out = <<>>

InitDbf == DIdle /\ GIdle /\ WIdle /\ IdleBut("b") /\ DInitRecord

NextDbf ==
  \/ DRead
  \/ DWrite

SpecDbf == InitDbf /\ [][NextDbf]_vars

\* C18: DBF round-trip: for every supported field type except N (that is C,
\* D, L and M), writing the values obtained by reading a well-formed record
\* reproduces that record's bytes exactly.
C18_DbfRoundTrip ==
  (/\ dbf_pc = "done"
   /\ \A k \in 1..Len(dbf_fields) :
        dbf_fields[k].type \in {"C", "D", "L", "M"})
  => dbf_out = dbf_record

(***************************************************************************)
(* avidyne.py: SFXFile.parse_script and SFXFile.run.  A string is the      *)
(* sequence of the codes of its characters, which is also its encoding.    *)
(***************************************************************************)
\* sections of a script, emissions of a transfer
MaxSections == 2
MaxRuns == 2

\* the strings of the scripts
TAB == 9
S_TAIL_NUM == <<84, 65, 73, 76, 95, 78, 85, 77>>
S_MSG_END == <<126, 77, 115, 103, 69, 110, 100, 126>>
S_A == <<65>>
S_B == <<66>>
S_1 == <<49>>
S_0 == <<48>>

\* b'!AVIDYNE_SFX!', '1.05', '3.09' and the footer 0x03040506
MAGIC_HEADER == <<33, 65, 86, 73, 68, 89, 78, 69, 95, 83, 70, 88, 33>>
VERSION_1_05 == <<49, 46, 48, 53>>
VERSION_3_09 == <<51, 46, 48, 57>>
MAGIC_FOOTER == <<3, 4, 5, 6>>

\* 0x04C11DB7
SFX_POLYNOMIAL == <<4, 193, 29, 183>>
sfx_lookup_table == create_lookup_table(SFX_POLYNOMIAL, 256)

\* one round of sfx_checksum:
\* x = (value & 0x00FFFFFF) << 8; b ^ x ^ table[value >> 24]
SfxStep(value, b) ==
  XorWord(<<value[2], value[3], value[4], b>>, sfx_lookup_table[value[1]])

RECURSIVE SfxOver(_, _, _)
SfxOver(data, n, value) ==
  IF n = 0 THEN value ELSE SfxStep(SfxOver(data, n - 1, value), data[n])

sfx_checksum(data) == SfxOver(data, Len(data), ZERO)

\* write_u32 of a number below 2^31, write_bytes and write_string
U32(n) ==
  <<n \div 16777216, (n \div 65536) % 256, (n \div 256) % 256, n % 256>>
write_bytes(data) == U32(Len(data)) \o data

\* the contents of a file of the zip, and zlib.compress: a function of the
\* contents, kept as a two-byte header before them
ZipRead(path) == HelloWorld \o path
Compressed(contents) == <<120, 156>> \o contents

RECURSIVE SplitTab(_)
\* str.split('\t')
SplitTab(s) ==
  IF \A k \in 1..Len(s) : s[k] # TAB THEN <<s>>
  ELSE LET k == CHOOSE i \in 1..Len(s) :
                  s[i] = TAB /\ \A j \in 1..(i - 1) : s[j] # TAB
       IN <<SubSeq(s, 1, k - 1)>> \o SplitTab(SubSeq(s, k + 1, Len(s)))

RECURSIVE JoinTab(_)
\* '\t'.join(parts)
JoinTab(parts) ==
  IF Len(parts) = 1 THEN parts[1]
  ELSE parts[1] \o <<TAB>> \o JoinTab(Tail(parts))

\* section.run of the five section classes
SectionRun(section, ctx) ==
  CASE section.id = 0 ->
         write_bytes(section.strs[1]) \o <<section.nums[1]>>
           \o (IF section.nums[1] = 1
               THEN <<3>> \o write_bytes(ctx.cycle) \o ctx.volume_id
                      \o U32(ctx.remaining_transfers)
                      \o [k \in 1..(32 * ctx.remaining_transfers) |-> 170]
               ELSE <<>>)
    [] section.id = 1 ->
         U32(Len(section.files)) \o U32(section.nums[1])
           \o Flatten([k \in 1..Len(section.files) |->
                 LET contents == ZipRead(section.files[k])
                 IN write_bytes(section.files[k]) \o U32(3)
                      \o U32(Len(contents))
                      \o write_bytes(Compressed(contents))
                      \o sfx_checksum(contents)])
    [] section.id = 3 ->
         write_bytes(section.strs[1]) \o <<section.nums[1]>>
    [] section.id = 6 ->
         write_bytes(section.strs[1]) \o write_bytes(section.strs[2])
           \o write_bytes(section.strs[3]) \o U32(section.nums[1])
           \o write_bytes(section.strs[4])
    [] OTHER ->
         <<section.nums[1], section.nums[2]>> \o write_bytes(section.strs[1])

\* lines 478-485 of SFXFile.run: the section takes the next fleet id when its
\* conditional info names TAIL_NUM
TakesFleetId(version, section, fleet_ids) ==
  /\ version = VERSION_3_09
  /\ section.has_info
  /\ section.conditional_info # <<>>
  /\ fleet_ids # <<>>
  /\ SplitTab(section.conditional_info)[2] = S_TAIL_NUM

\* lines 482-484 with pop() in place of pop(0): the last fleet id is taken
WithFleetId_pop_last(section, fleet_ids) ==
  [section EXCEPT !.conditional_info =
     JoinTab([SplitTab(@) EXCEPT ![4] = fleet_ids[Len(fleet_ids)]])]

\* the section after lines 482-484
WithFleetId(section, fleet_ids) ==
  [section EXCEPT !.conditional_info =
     JoinTab([SplitTab(@) EXCEPT ![4] = fleet_ids[1]])]

RECURSIVE RunSections(_, _, _, _, _)
\* the loop of SFXFile.run from section idx on: the bytes written, the
\* sections and the fleet ids it leaves
RunSections(version, sections, ctx, idx, out) ==
  IF idx > Len(sections)
  THEN [out |-> out, sections |-> sections, ctx |-> ctx]
  ELSE LET takes == TakesFleetId(version, sections[idx], ctx.fleet_ids)
           section == IF takes THEN WithFleetId(sections[idx], ctx.fleet_ids)
                      ELSE sections[idx]
           ctx2 == IF takes THEN [ctx EXCEPT !.fleet_ids = Tail(@)] ELSE ctx
           bytes ==
             U32(0)
               \o write_bytes(IF idx = 1
                              THEN ctx.cycle \o <<32>> \o section.header
                              ELSE section.header)
               \o (IF version = VERSION_3_09
                   THEN U32(section.bitmask)
                          \o U32(IF section.has_info THEN 1 ELSE 0)
                          \o (IF section.has_info
                                   /\ section.conditional_info # <<>>
                              THEN write_bytes(section.conditional_info)
                              ELSE <<>>)
                   ELSE <<>>)
               \o write_bytes(section.param)
               \o <<section.id>>
               \o SectionRun(section, ctx2)
       IN RunSections(version, [sections EXCEPT ![idx] = section], ctx2,
                      idx + 1, out \o bytes)

\* the lines of a script as SECTION_RE, CONDITIONAL_RE and
\* CONDITIONAL_OLD_RE see them: a section line, the line of its condition,
\* or any other line (the stripped text)
Line(k, type, header, conditional, form, bitmask, has_info, info, text) ==
  [k |-> k, type |-> type, header |-> header, conditional |-> conditional,
   form |-> form, bitmask |-> bitmask, has_info |-> has_info, info |-> info,
   text |-> text]
SectionLine(type, header, conditional) ==
  Line("section", type, header, conditional, "", 0, FALSE, <<>>, header)
CondLine(form, bitmask, has_info, info) ==
  Line("cond", 0, <<>>, FALSE, form, bitmask, has_info, info, info)
TextLine(text) == Line("text", 0, <<>>, FALSE, "", 0, FALSE, <<>>, text)

\* int(s, base) of digits below the base; -1 where it raises ValueError
IntOf(s, base) ==
  LET F[n \in 0..Len(s)] ==
        IF n = 0 THEN 0 ELSE base * F[n - 1] + (s[n] - 48)
  IN IF s # <<>> /\ \A k \in 1..Len(s) : s[k] \in 48..(47 + base)
     THEN F[Len(s)]
     ELSE -1

\* not s.startswith('0')
NotZero(s) == IF s # <<>> /\ s[1] = 48 THEN 0 ELSE 1

\* the first line from j on for which stop holds, Len + 1 when there is none
FirstFrom(lines, j, Stop(_)) ==
  IF \E k \in j..Len(lines) : Stop(lines[k])
  THEN CHOOSE k \in j..Len(lines) :
         Stop(lines[k]) /\ \A i \in j..(k - 1) : ~Stop(lines[i])
  ELSE Len(lines) + 1

IsBlank(line) == line.text = <<>>
IsMsgEnd(line) == line.text = S_MSG_END

\* parse_script of the five section classes, from line j on: the fields of
\* the section and the line after it
BodyParse(type, lines, j, param) ==
  LET T(k) == lines[k].text
      R(err, strs, nums, files, next) ==
        [err |-> err, strs |-> strs, nums |-> nums, files |-> files,
         next |-> next]
      Stop == R("StopIteration", <<>>, <<>>, <<>>, j)
      Bad == R("ValueError", <<>>, <<>>, <<>>, j)
  IN CASE type = 0 ->
            IF j + 2 > Len(lines) THEN Stop
            ELSE IF T(j) # <<>> THEN Bad
            ELSE R("none", <<T(j + 1)>>, <<NotZero(T(j + 2))>>, <<>>, j + 3)
       [] type = 1 ->
            IF j > Len(lines) THEN Stop
            ELSE IF IntOf(T(j), 8) < 0 THEN Bad
            ELSE LET end == FirstFrom(lines, j + 1, IsBlank)
                 IN R("none", <<>>, <<IntOf(T(j), 8)>>,
                      [k \in 1..(end - j - 1) |-> T(j + k)], end + 1)
       [] type = 3 ->
            IF j + 1 > Len(lines) THEN Stop
            ELSE IF IntOf(T(j + 1), 10) < 0 THEN Bad
            ELSE R("none", <<T(j)>>, <<IntOf(T(j + 1), 10)>>, <<>>, j + 2)
       [] type = 6 ->
            IF j + 3 > Len(lines) THEN Stop
            ELSE R("none", <<param, T(j), T(j + 1), T(j + 2)>>,
                   <<IF IntOf(T(j + 3), 10) < 0 THEN 1
                     ELSE IntOf(T(j + 3), 10) + 1>>, <<>>, j + 4)
       [] type = 14 ->
            IF j + 1 > Len(lines) THEN Stop
            ELSE LET end == FirstFrom(lines, j + 2, IsMsgEnd)
                 IN R("none",
                      <<Flatten([k \in 1..(end - j - 2) |-> T(j + 1 + k)])>>,
                      <<NotZero(T(j)), NotZero(T(j + 1))>>, <<>>, end + 1)
       [] OTHER -> Bad

RECURSIVE ParseFrom(_, _, _, _)
\* the loop of SFXFile.parse_script from line i on
ParseFrom(lines, i, version, sections) ==
  IF i > Len(lines)
  THEN [err |-> "none", version |-> version, sections |-> sections]
  ELSE IF lines[i].text = <<>> \/ lines[i].text[1] = 59
  THEN ParseFrom(lines, i + 1, version, sections)
  ELSE IF lines[i].k # "section"
  THEN [err |-> "ValueError", version |-> version, sections |-> sections]
  ELSE LET conditional == lines[i].conditional
           j == IF conditional THEN i + 2 ELSE i + 1
       IN IF j > Len(lines)
          THEN [err |-> "StopIteration", version |-> version,
                sections |-> sections]
          ELSE LET cond == lines[i + 1]
                   lexed == conditional /\ cond.k = "cond"
                              /\ cond.form \in {"mask", "old"}
                   body == BodyParse(lines[i].type, lines, j + 1,
                                     lines[j].text)
                   section ==
                     [id |-> lines[i].type,
                      header |-> lines[i].header,
                      bitmask |-> IF ~conditional THEN 15
                                  ELSE IF lexed THEN cond.bitmask ELSE 0,
                      has_info |-> lexed /\ cond.has_info,
                      conditional_info |-> IF lexed /\ cond.has_info
                                           THEN cond.info ELSE <<>>,
                      param |-> lines[j].text,
                      strs |-> body.strs, nums |-> body.nums,
                      files |-> body.files]
               IN IF body.err # "none"
                  THEN [err |-> body.err, version |-> version,
                        sections |-> sections]
                  ELSE ParseFrom(lines, body.next,
                                 IF conditional THEN VERSION_3_09
                                 ELSE version,
                                 Append(sections, section))

\* SFXFile.parse_script, lines 416-464
parse_script(lines) == ParseFrom(lines, 1, VERSION_1_05, <<>>)

\* the bitmask of a condition in the old form:
\* bool(a) | bool(b) << 2 | bool(c) << 1
OldMask(a, b, c) ==
  (IF a = 0 THEN 0 ELSE 1) + (IF b = 0 THEN 0 ELSE 4)
    + (IF c = 0 THEN 0 ELSE 2)

\* the sections the scripts are made of
SectionTemplates == {
  <<SectionLine(0, S_A, FALSE), TextLine(<<80>>), TextLine(<<>>),
    TextLine(<<104, 105>>), TextLine(S_1)>>,
  <<SectionLine(1, S_B, FALSE), TextLine(<<80>>), TextLine(<<55, 53, 53>>),
    TextLine(<<102>>), TextLine(<<>>)>>,
  <<SectionLine(3, S_A, TRUE),
    CondLine("mask", 15, TRUE,
             <<120, TAB>> \o S_TAIL_NUM \o <<TAB, 121, TAB, 78, 48>>),
    TextLine(<<80>>), TextLine(<<99>>), TextLine(<<53>>)>>,
  <<SectionLine(6, S_B, TRUE),
    CondLine("old", OldMask(1, 0, 1), TRUE,
             <<120, TAB, 84, TAB, 121, TAB, 122>>),
    TextLine(<<80>>), TextLine(<<107>>), TextLine(<<118>>),
    TextLine(<<116>>), TextLine(<<120>>)>>,
  <<SectionLine(14, S_A, FALSE), TextLine(<<80>>), TextLine(S_1),
    TextLine(S_0), TextLine(<<104>>), TextLine(<<105>>),
    TextLine(S_MSG_END)>>,
  <<TextLine(<<59, 65>>), SectionLine(9, S_A, FALSE), TextLine(<<80>>)>>,
  <<SectionLine(3, S_B, FALSE), TextLine(<<80>>)>> }

\* the scripts: up to MaxSections of them in a row
Scripts ==
  {Flatten(t) : t \in SeqsUpTo(SectionTemplates, MaxSections)}

\* main.py:495: the SecurityContext of a transfer
NewSecurityContext(fleet_ids) ==
  [cycle |-> <<50, 52, 48, 49>>, volume_id |-> <<18, 52, 86, 120>>,
   remaining_transfers |-> 2, fleet_ids |-> fleet_ids]

\* SFXFile.parse_script, lines 416-464
SParse ==
  /\ UNCHANGED NotS
  /\ sfx_pc \in {"parse", "run"}
  /\ LET parsed == parse_script(sfx_script)
     IN IF parsed.err # "none"
        THEN /\ sfx_pc' = "raised"
             /\ sfx_file' = sfx_file
        ELSE /\ sfx_pc' = "run"
             /\ sfx_file' = <<[version |-> parsed.version,
                               sections |-> parsed.sections]>>
  /\ UNCHANGED <<sfx_script, sfx_fleet, sfx_ctx, sfx_ctx_id, sfx_outs>>

\* SFXFile.run, lines 469-497
SRun ==
  /\ UNCHANGED NotS
  /\ sfx_pc = "run"
  /\ Len(sfx_outs) < MaxRuns
  /\ LET ran == RunSections(sfx_file[1].version, sfx_file[1].sections,
                            sfx_ctx, 1, <<>>)
         bytes == MAGIC_HEADER \o sfx_file[1].version
                    \o U32(Len(sfx_file[1].sections)) \o ran.out
                    \o MAGIC_FOOTER
     IN /\ sfx_outs' = Append(sfx_outs,
                              [ctx_id |-> sfx_ctx_id, bytes |-> bytes])
        /\ sfx_file' = <<[sfx_file[1] EXCEPT !.sections = ran.sections]>>
        /\ sfx_ctx' = ran.ctx
  /\ UNCHANGED <<sfx_script, sfx_fleet, sfx_ctx_id, sfx_pc>>

\* main.py:470-495: another transfer makes its own SecurityContext of the
\* fleet ids of the service
SNewContext ==
  /\ UNCHANGED NotS
  /\ sfx_pc = "run"
  /\ Len(sfx_outs) = sfx_ctx_id
  /\ Len(sfx_outs) < MaxRuns
  /\ sfx_ctx' = NewSecurityContext(sfx_fleet)
  /\ sfx_ctx_id' = sfx_ctx_id + 1
  /\ UNCHANGED <<sfx_script, sfx_fleet, sfx_file, sfx_pc, sfx_outs>>

SInit ==
  /\ sfx_script \in Scripts
  /\ sfx_fleet \in {<<>>, <<<<78, 49>>>>, <<<<78, 49>>, <<78, 50>>>>}
  /\ sfx_file = <<>>
  /\ sfx_ctx = NewSecurityContext(sfx_fleet)
  /\ sfx_ctx_id = 1
  /\ sfx_pc = "parse"
  /\ sfx_outs = <<>>

InitSfx == DIdle /\ GIdle /\ WIdle /\ IdleBut("s") /\ SInit

NextSfx ==
  \/ SParse
  \/ SRun
  \/ SNewContext

SpecSfx == InitSfx /\ [][NextSfx]_vars

\* C19: SFX idempotence: for a given script and SecurityContext, parsing and
\* emitting again reproduces the same byte stream as the first emission; an
\* emission leaves nothing behind, in the parsed sections or in the context,
\* that changes the bytes of a later emission with the same SecurityContext.
C19_SfxIdempotent ==
  \A i, j \in 1..Len(sfx_outs) :
    sfx_outs[i].ctx_id = sfx_outs[j].ctx_id
      => sfx_outs[i].bytes = sfx_outs[j].bytes

(***************************************************************************)
(* data_card/garmin.py: GarminFirmwareWriter.write_firmware, called on a   *)
(* writer that detect.py constructs as GarminFirmwareWriter(handle) or     *)
(* that a caller constructs with the three parameters of                   *)
(* BasicUsbDevice.__init__.                                                *)
(***************************************************************************)
\* records of the largest blob
MaxRecords == 2

\* USBError.value as write_firmware tests it (lines 71 and 74)
LIBUSB_ERROR_IO == -1
LIBUSB_ERROR_NO_DEVICE == -4

\* the values of two other USB errors (libusb's timeout and pipe errors)
OtherUsbErrors == {-7, -9}

\* what the device answers to the successive control writes of one record:
\* up to two I/O errors and then success (0) or an error, or three I/O
\* errors
AnswerRuns ==
  {[k \in 1..(n + 1) |-> IF k <= n THEN LIBUSB_ERROR_IO ELSE last] :
     n \in 0..2,
     last \in {0, LIBUSB_ERROR_NO_DEVICE} \cup OtherUsbErrors}
  \cup {<<LIBUSB_ERROR_IO, LIBUSB_ERROR_IO, LIBUSB_ERROR_IO>>}

\* control writes made so far for record rec
WritesOf(log, rec) == Cardinality({i \in 1..Len(log) : log[i].rec = rec})

\* line 64 with the attempts of the previous record carried over
FreshAttempts_carried(count) == count

\* line 64: `attempts = 0` for every record
FreshAttempts(count) == 0

\* `writer = GarminFirmwareWriter(...)`: BasicUsbDevice.__init__ raises
\* TypeError unless it gets its three parameters
FConstruct ==
  /\ UNCHANGED NotF
  /\ f_pc = "construct"
  /\ IF BasicUsbDevice_init(f_args)
     THEN f_pc' = "read" /\ f_result' = f_result
     ELSE f_pc' = "raised" /\ f_result' = <<"TypeError">>
  /\ UNCHANGED <<f_args, f_blob, f_answers, f_rec, f_attempts, f_log,
                 f_sleeps>>

\* lines 56-64: read the next record header; no more bytes ends the upload
FRead ==
  /\ UNCHANGED NotF
  /\ f_pc = "read"
  /\ IF f_rec = f_blob
     THEN /\ f_pc' = "returned"
          /\ UNCHANGED <<f_rec, f_attempts>>
     ELSE /\ f_rec' = f_rec + 1
          /\ f_attempts' = FreshAttempts(f_attempts)
          /\ f_pc' = "write"
  /\ UNCHANGED <<f_args, f_blob, f_answers, f_log, f_sleeps, f_result>>

\* lines 65-79: one pass of the inner loop, a control write and what
\* follows from its outcome
FControlWrite ==
  /\ UNCHANGED NotF
  /\ f_pc = "write"
  /\ LET answer == f_answers[f_rec][WritesOf(f_log, f_rec) + 1] IN
     /\ f_log' = Append(f_log, [rec |-> f_rec, answer |-> answer])
     /\ IF answer = 0
        THEN /\ f_pc' = "read"
             /\ UNCHANGED <<f_attempts, f_sleeps, f_result>>
        ELSE IF answer = LIBUSB_ERROR_NO_DEVICE
        THEN /\ f_pc' = "returned"
             /\ UNCHANGED <<f_attempts, f_sleeps, f_result>>
        ELSE IF answer # LIBUSB_ERROR_IO
        THEN /\ f_pc' = "raised"
             /\ f_result' = <<"USBError", answer>>
             /\ UNCHANGED <<f_attempts, f_sleeps>>
        ELSE /\ f_attempts' = f_attempts + 1
             /\ IF f_attempts + 1 >= 3
                THEN /\ f_pc' = "raised"
                     /\ f_result' = <<"USBError", answer>>
                     /\ f_sleeps' = f_sleeps
                ELSE /\ f_pc' = "write"
                     /\ f_sleeps' = f_sleeps + 1
                     /\ f_result' = f_result
  /\ UNCHANGED <<f_args, f_blob, f_answers, f_rec>>

\* a blob of 0 to MaxRecords records is about to be uploaded to a device
\* that answers as f_answers says
FInit ==
  /\ f_pc = "construct"
  /\ f_args \in {{"handle"}, {"handle", "read_endpoint", "write_endpoint"}}
  /\ f_blob \in 0..MaxRecords
  /\ f_answers \in [1..f_blob -> AnswerRuns]
  /\ f_rec = 0
  /\ f_attempts = 0
  /\ f_log = <<>>
  /\ f_sleeps = 0
  /\ f_result = <<>>

InitFirmware == DIdle /\ GIdle /\ WIdle /\ IdleBut("f") /\ FInit

NextFirmware ==
  \/ FConstruct
  \/ FRead
  \/ FControlWrite

SpecFirmware == InitFirmware /\ [][NextFirmware]_vars

\* the section's conditional info names TAIL_NUM in its second field
IsTailNum(section) ==
  /\ section.has_info
  /\ section.conditional_info # <<>>
  /\ SplitTab(section.conditional_info)[2] = S_TAIL_NUM

\* how many of the first idx sections name TAIL_NUM
TailNumUpTo(sections, idx) ==
  Cardinality({j \in 1..idx : IsTailNum(sections[j])})

\* the sections with the fourth field of the k-th TAIL_NUM section replaced
\* by the k-th fleet id, as far as there are fleet ids
WithFleetIdsInOrder(sections, fleet_ids) ==
  [idx \in 1..Len(sections) |->
     LET k == TailNumUpTo(sections, idx)
         parts == SplitTab(sections[idx].conditional_info)
     IN IF IsTailNum(sections[idx]) /\ k <= Len(fleet_ids)
        THEN [sections[idx] EXCEPT !.conditional_info =
                JoinTab(<<parts[1], parts[2], parts[3], fleet_ids[k]>>
                          \o SubSeq(parts, 5, Len(parts)))]
        ELSE sections[idx]]

\* the bytes of the emission of the sections as they stand, no fleet id
\* being left to consume
EmittedAsIs(version, sections) ==
  MAGIC_HEADER \o version \o U32(Len(sections))
    \o RunSections(version, sections, NewSecurityContext(<<>>), 1, <<>>).out
    \o MAGIC_FOOTER

\* C25: when the transfer carries a non-empty fleet_ids list, the k-th
\* conditional section in script order whose info names TAIL_NUM in its
\* second tab-separated field is emitted with its fourth field replaced by
\* the k-th fleet id, one id per section; the sections whose second field is
\* not TAIL_NUM are emitted unchanged and consume no id.
C25_FleetIdsInOrder ==
  (sfx_fleet # <<>> /\ Len(sfx_outs) >= 1) =>
     LET parsed == parse_script(sfx_script)
     IN sfx_outs[1].bytes =
          EmittedAsIs(parsed.version,
                      WithFleetIdsInOrder(parsed.sections, sfx_fleet))

\* a script of two TAIL_NUM sections has been emitted with two fleet ids,
\* both consumed; and a script of a TAIL_NUM section after another
\* conditional section with one
C25_Witness ==
  /\ Len(sfx_outs) = 1
  /\ Len(sfx_fleet) = 2
  /\ sfx_ctx.fleet_ids = <<>>
  /\ Len(sfx_file[1].sections) = 2
  /\ \A idx \in 1..2 :
       /\ IsTailNum(sfx_file[1].sections[idx])
       /\ SplitTab(sfx_file[1].sections[idx].conditional_info)[4]
            = sfx_fleet[idx]

(***************************************************************************)
(* chartview.py and main.py: the members of the ZIP archives that a        *)
(* ChartView transfer opens and closes, in the order of                    *)
(* _transfer_g1000_chartview.  ZipFile.read and ZipFile.extract open the   *)
(* member, read it to its end and close it.                                *)
(***************************************************************************)
\* archives of the service
MaxArchives == 2

\* the members whose name ends with '.bin'
BinNames == <<"aa_charts.bin", "aa_vfrcharts.bin", "bb_charts.bin">>

\* the members that the methods called after process_charts_bin open, one
\* `with self._open(name)`, self._read(name) or handle.extract(entry) each,
\* in the order of main.py lines 574-627
MembersAfterBin ==
  <<"charts.dbf", "vfrchrts.dbf", "coverags.dbf",
    "charts.dbf", "vfrchrts.dbf", "chrtlink.dbf",
    "airports.dbf", "vfrapts.dbf",
    "notams.dbf", "notams.dbt", "vfrntms.dbf", "vfrntms.dbt",
    "ctypes.dbf", "jeppesen.tfl", "jeppesen.tls", "lssdef.tcl",
    "country.dbf", "ctypes.dbf", "jeppesen.tfl", "jeppesen.tls",
    "lssdef.tcl", "state.dbf">>

\* the members that come with the IFR and with the VFR coverage, and the
\* ones that are common
IfrMembers == {"charts.dbf", "chrtlink.dbf", "airports.dbf", "notams.dbf",
               "notams.dbt"}
VfrMembers == {"vfrchrts.dbf", "vfrapts.dbf", "vfrntms.dbf", "vfrntms.dbt"}
CommonMembers == {"charts.ini", "coverags.dbf", "ctypes.dbf", "jeppesen.tfl",
                  "jeppesen.tls", "lssdef.tcl", "country.dbf", "state.dbf"}
AllMembers == Range(BinNames) \cup IfrMembers \cup VfrMembers
                \cup CommonMembers

\* find_charts_bin (lines 118-119): the '.bin' entries of _entry_map, in the
\* order the archives were read
find_charts_bin(archive) ==
  LET present == SelectSeq(BinNames, LAMBDA b : archive[b] # 0)
      InArchive(a) == SelectSeq(present, LAMBDA b : archive[b] = a)
      F[a \in 0..MaxArchives] ==
        IF a = 0 THEN <<>> ELSE F[a - 1] \o InArchive(a)
  IN F[MaxArchives]

\* process_charts_ini (lines 134-135): self._read('charts.ini') opens the
\* member and closes it again; then process_charts_bin begins
ZReadIni ==
  /\ UNCHANGED NotZ
  /\ z_pc = "ini"
  /\ z_pc' = "bins_open"
  /\ z_i' = 1
  /\ UNCHANGED <<z_archive, z_open, z_result>>

\* process_charts_bin, lines 171-178: `chart_fd = handle.open(entry)` for
\* the next '.bin' entry, which stays open in chart_fds
ZOpenBin ==
  /\ UNCHANGED NotZ
  /\ z_pc = "bins_open"
  /\ LET bins == find_charts_bin(z_archive) IN
     IF z_i <= Len(bins)
     THEN /\ z_open' = z_open \cup {bins[z_i]}
          /\ z_i' = z_i + 1
          /\ z_pc' = z_pc
     ELSE /\ z_pc' = "bins_body"
          /\ UNCHANGED <<z_open, z_i>>
  /\ UNCHANGED <<z_archive, z_result>>

\* lines 180-222: the merged file is written from the open members; a
\* member name that is not <code>_charts.bin or <code>_vfrcharts.bin, or a
\* record size out of range, raises
ZBinsBody ==
  /\ UNCHANGED NotZ
  /\ z_pc = "bins_body"
  /\ \E ok \in BOOLEAN :
       z_result' = IF ok THEN z_result ELSE "raised"
  /\ z_pc' = "bins_close"
  /\ z_i' = 1
  /\ UNCHANGED <<z_archive, z_open>>

\* lines 224-226: `finally: for chart_fd in chart_fds: chart_fd.close()`
ZCloseBin ==
  /\ UNCHANGED NotZ
  /\ z_pc = "bins_close"
  /\ LET bins == find_charts_bin(z_archive) IN
     IF z_i <= Len(bins)
     THEN /\ z_open' = z_open \ {bins[z_i]}
          /\ z_i' = z_i + 1
          /\ z_pc' = z_pc
     ELSE /\ z_pc' = IF z_result = "raised" THEN "done" ELSE "open"
          /\ z_i' = 1
          /\ z_open' = z_open
  /\ UNCHANGED <<z_archive, z_result>>

\* `with self._open(name) as fd:` (or _read, or extract) of the next member
ZOpen ==
  /\ UNCHANGED NotZ
  /\ z_pc = "open"
  /\ IF z_i <= Len(MembersAfterBin)
     THEN /\ z_open' = z_open \cup {MembersAfterBin[z_i]}
          /\ z_pc' = "close"
          /\ z_result' = z_result
     ELSE /\ z_pc' = "done"
          /\ z_result' = "ok"
          /\ z_open' = z_open
  /\ UNCHANGED <<z_archive, z_i>>

\* the end of that with-block, reached by its last statement or by an
\* exception of the reader, which ends the transfer
ZClose ==
  /\ UNCHANGED NotZ
  /\ z_pc = "close"
  /\ z_open' = z_open \ {MembersAfterBin[z_i]}
  /\ \E ok \in BOOLEAN :
       IF ok THEN z_pc' = "open" /\ z_i' = z_i + 1 /\ z_result' = z_result
       ELSE z_pc' = "done" /\ z_i' = z_i /\ z_result' = "raised"
  /\ UNCHANGED z_archive

\* the archives of a service: each '.bin' member is in one of them or in
\* none; the IFR members, the VFR members and the common ones each in one
ZInit ==
  /\ \E bins \in [Range(BinNames) -> 0..MaxArchives],
        ifr, vfr, common \in 1..MaxArchives :
       z_archive = [m \in AllMembers |->
                      IF m \in Range(BinNames) THEN bins[m]
                      ELSE IF m \in IfrMembers THEN ifr
                      ELSE IF m \in VfrMembers THEN vfr
                      ELSE common]
  /\ z_pc = "ini"
  /\ z_i = 0
  /\ z_open = {}
  /\ z_result = "none"

InitZip == DIdle /\ GIdle /\ WIdle /\ IdleBut("z") /\ ZInit

NextZip ==
  \/ ZReadIni
  \/ ZOpenBin
  \/ ZBinsBody
  \/ ZCloseBin
  \/ ZOpen
  \/ ZClose

SpecZip == InitZip /\ [][NextZip]_vars

(***************************************************************************)
(* featunlk.py: copy_with_feat_unlk.  The source stream is some bytes, a   *)
(* run of zero bytes and some more bytes; a block is the part of it that   *)
(* one src.read(CHUNK_SIZE) returned.                                      *)
(***************************************************************************)
CHUNK_SIZE == 32768

\* the bytes of the stream
StreamBytes(src) == src.head \o Zeros(src.zeros) \o src.tail

StreamLen(src) == Len(src.head) + src.zeros + Len(src.tail)

\* the bytes of a block
BlockBytes(src, block) ==
  SubSeq(StreamBytes(src), block.start + 1, block.start + block.len)

\* src.read(CHUNK_SIZE) at position pos
SrcRead(src, pos) ==
  [start |-> pos, len |-> Min(CHUNK_SIZE, StreamLen(src) - pos)]

\* int.from_bytes(data[-4:], 'little') of a block, as a 32-bit value
LastFourLittle(data) ==
  LET last == SubSeq(data, Len(data) - Min(4, Len(data)) + 1, Len(data))
      padded == last \o Zeros(4 - Len(last))
  IN <<padded[4], padded[3], padded[2], padded[1]>>

\* block[NAVIGATION_PREVIEW_START:NAVIGATION_PREVIEW_END]
PreviewOf(data) ==
  SubSeq(data, NAVIGATION_PREVIEW_START + 1,
         Min(NAVIGATION_PREVIEW_END, Len(data)))

\* lines 116-128: the feature of the file name, the first read, the preview
PStart ==
  /\ UNCHANGED NotP
  /\ cp_pc = "start"
  /\ IF cp_feature = 0
     THEN /\ cp_pc' = "raised"
          /\ UNCHANGED <<cp_pos, cp_block, cp_last, cp_chk, cp_preview>>
     ELSE LET block == SrcRead(cp_src, 0) IN
          /\ cp_block' = block
          /\ cp_last' = block
          /\ cp_pos' = block.len
          /\ cp_preview' =
               IF Feature[cp_feature].name = "NAVIGATION"
               THEN [given |-> TRUE,
                     bytes |-> PreviewOf(BlockBytes(cp_src, block))]
               ELSE cp_preview
          /\ cp_chk' = ALL_ONES
          /\ cp_pc' = "loop"
  /\ UNCHANGED <<cp_src, cp_feature, cp_written, cp_content1>>

\* lines 130-136: one pass of `while block`
PLoop ==
  /\ UNCHANGED NotP
  /\ cp_pc = "loop"
  /\ cp_block.len > 0
  /\ cp_last' = cp_block
  /\ cp_written' = cp_written + cp_block.len
  /\ cp_chk' = feat_unlk_checksum(BlockBytes(cp_src, cp_block), cp_chk)
  /\ cp_block' = SrcRead(cp_src, cp_pos)
  /\ cp_pos' = cp_pos + SrcRead(cp_src, cp_pos).len
  /\ UNCHANGED <<cp_src, cp_feature, cp_preview, cp_content1, cp_pc>>

\* lines 138-143: after the loop, the checksum test, the file CRC taken from
\* last_block and the call of update_feat_unlk with it
PFinish ==
  /\ UNCHANGED NotP
  /\ cp_pc = "loop"
  /\ cp_block.len = 0
  /\ IF cp_chk # ZERO
     THEN cp_pc' = "raised" /\ cp_content1' = cp_content1
     ELSE LET checksum == LastFourLittle(BlockBytes(cp_src, cp_last))
              system_id == <<ZERO, <<0, 0, 0, 42>>>>
          IN IF UpdateRaises(cp_feature, system_id, cp_preview) # "none"
             THEN cp_pc' = "raised" /\ cp_content1' = cp_content1
             ELSE /\ cp_content1' =
                       Closed(Content1Body(cp_feature, <<18, 52, 86, 120>>,
                                           200, checksum, cp_preview))
                  /\ cp_pc' = "updated"
  /\ UNCHANGED <<cp_src, cp_feature, cp_pos, cp_block, cp_last, cp_chk,
                 cp_preview, cp_written>>

\* bytes followed by the checksum that brings the running checksum, value
\* before them, to zero after them
Sealed(data, value) == data \o to_bytes_little(feat_unlk_checksum(data, value))

\* the streams: sealed bytes, then zero bytes up to around CHUNK_SIZE, then
\* nothing, sealed bytes again, or bytes that fail the checksum
Sources ==
  {[head |-> Sealed(head, ALL_ONES), zeros |-> zeros, tail |-> tail] :
     head \in {<<>>, <<1>>},
     zeros \in {0} \cup {CHUNK_SIZE - n : n \in 6..10},
     tail \in {<<>>, Sealed(<<7>>, ZERO), <<7, 0, 0, 0, 0>>}}

PInit ==
  /\ cp_src \in Sources
  /\ cp_feature \in {0, 1, 3}
  /\ cp_pos = 0
  /\ cp_block = [start |-> 0, len |-> 0]
  /\ cp_last = [start |-> 0, len |-> 0]
  /\ cp_chk = ZERO
  /\ cp_preview = [given |-> FALSE, bytes |-> <<>>]
  /\ cp_written = 0
  /\ cp_content1 = <<>>
  /\ cp_pc = "start"

InitCopy == DIdle /\ GIdle /\ WIdle /\ IdleBut("p") /\ PInit

NextCopy ==
  \/ PStart
  \/ PLoop
  \/ PFinish

SpecCopy == InitCopy /\ [][NextCopy]_vars

(***************************************************************************)
(* Claims about the firmware upload                                        *)
(***************************************************************************)
\* which control write of its record the i-th control write is
AttemptNo(log, i) == Cardinality({j \in 1..i : log[j].rec = log[i].rec})

\* C23: while uploading firmware each record's control write is attempted
\* at most 3 times: an I/O failure is retried after a 100 ms sleep, the
\* third consecutive I/O failure of the same record is raised to the caller,
\* any USB error other than I/O or no-device is raised at once without a
\* retry, and the attempt count starts afresh for every record.
C23_FirmwareRetries ==
  /\ \A r \in 1..f_blob : WritesOf(f_log, r) <= 3
  /\ f_sleeps = Cardinality({i \in 1..Len(f_log) :
                               /\ f_log[i].answer = LIBUSB_ERROR_IO
                               /\ AttemptNo(f_log, i) < 3})
  /\ \A i \in 1..Len(f_log) :
       LET e == f_log[i]
           n == AttemptNo(f_log, i)
           last == i = Len(f_log)
       IN
       /\ (i > 1 /\ f_log[i - 1].rec = e.rec)
             => f_log[i - 1].answer = LIBUSB_ERROR_IO
       /\ (e.answer = LIBUSB_ERROR_IO /\ n < 3)
             => IF last THEN f_pc = "write" /\ f_result = <<>>
                ELSE f_log[i + 1].rec = e.rec
       /\ (e.answer = LIBUSB_ERROR_IO /\ n = 3)
             => last /\ f_pc = "raised" /\ f_result = <<"USBError", e.answer>>
       /\ e.answer \notin {0, LIBUSB_ERROR_IO, LIBUSB_ERROR_NO_DEVICE}
             => last /\ f_pc = "raised" /\ f_result = <<"USBError", e.answer>>

\* the second record is given up after its third I/O failure, the first
\* having gone through at its third attempt; a timeout of a record's second
\* attempt is covered by the same runs
C23_Witness ==
  /\ f_pc = "raised"
  /\ f_result = <<"USBError", LIBUSB_ERROR_IO>>
  /\ f_rec = 2
  /\ WritesOf(f_log, 1) = 3
  /\ WritesOf(f_log, 2) = 3
  /\ f_sleeps = 4

\* the first record whose control writes do not end in success (0: none)
FirstFailing ==
  IF \A r \in 1..f_blob : Last(f_answers[r]) = 0 THEN 0
  ELSE CHOOSE r \in 1..f_blob :
         /\ Last(f_answers[r]) # 0
         /\ \A q \in 1..(r - 1) : Last(f_answers[q]) = 0

\* the device disappears while the blob is sent to it
Vanishes ==
  /\ FirstFailing # 0
  /\ Last(f_answers[FirstFailing]) = LIBUSB_ERROR_NO_DEVICE

C26_OneMemberPerArchive ==
  /\ \A m, n \in z_open : z_archive[m] = z_archive[n] => m = n
  /\ ~({"notams.dbf", "notams.dbt"} \subseteq z_open)
  /\ ~({"vfrntms.dbf", "vfrntms.dbt"} \subseteq z_open)

(***************************************************************************)
(* Claims about copy_with_feat_unlk                                        *)
(***************************************************************************)
\* update_feat_unlk, lines 152-163: the four bytes of the file CRC in
\* content1
CrcField(content1, feature) ==
  LET at == IF Feature[feature].name = "NAVIGATION" THEN 22 ELSE 20
  IN SubSeq(content1, at + 1, at + 4)

\* C27: for any source stream of at least 4 bytes whose running feat-unlk
\* CRC ends at zero, the file CRC that copy_with_feat_unlk records in the
\* feature slot is the little-endian value of the last 4 bytes of the whole
\* stream, for every stream length, also one whose final read chunk holds
\* fewer than 4 bytes.
C27_LastFourBytes ==
  (cp_pc = "updated" /\ StreamLen(cp_src) >= 4) =>
     CrcField(cp_content1, cp_feature)
       = SubSeq(StreamBytes(cp_src), StreamLen(cp_src) - 3,
                StreamLen(cp_src))

(***************************************************************************)
(* Claims about the data-card write                                        *)
(***************************************************************************)
\* the command got a supported card, the user's confirmation and a readable
\* file that fits on the card
WriteCouldProceed ==
  /\ w_pc = "done"
  /\ w_result \notin {"CardMissing", "UnsupportedCard", "UnknownCard",
                      "Cancelled", "FileError", "IOError", "TooBig"}

\* bytes [0, size) of the card equal the file
CardHoldsFile == file_size = 0 \/ card_image = "file"

C4_WrongFirmwareBeforeMutation ==
  (WriteCouldProceed /\ check_supports_write_raises) =>
     /\ w_result = "WrongFirmware"
     /\ erased = {}
     /\ n_write_cmds = 0

\* C10: with full_erase a data-card write erases the whole card, every
\* sector in [0, total_sectors) whether blank or not; without full_erase
\* only sectors found non-blank are erased.
C10_FullEraseErasesAll ==
  WriteCouldProceed =>
     /\ full_erase => erased = 0..(get_total_sectors - 1)
     /\ ~full_erase => (card_image = "blank" => erased = {})


UniformSupported(N) ==
  /\ has_card
  /\ Len(card_iids) = N
  /\ \A k \in 1..N : card_iids[k] = card_iids[1]
  /\ <<manufacturer_id(card_iids[1]), chip_id(card_iids[1])>> \in IID_MAP_KEYS

InitErrors == {"CardMissing", "UnsupportedCard", "UnknownCard"}

\* C12: init_data_card on a card with N in {2, 3, 4} chips that all report
\* the same supported IID sets the chip count to N and the card type, the
\* sectors per chip and the card name to what the IID table gives; it raises
\* when there is no card, no chip answers, one chip answers, the chips
\* report different IIDs or the common IID is not in the table.
C12_InitDataCard ==
  w_pc \in {"command", "write", "done"} =>
     /\ \A N \in 2..4 :
          UniformSupported(N) =>
            LET info == IID_MAP(<<manufacturer_id(card_iids[1]),
                                  chip_id(card_iids[1])>>)
            IN /\ w_result \notin InitErrors
               /\ chips = N
               /\ w_card_type = info.card_type
               /\ sectors_per_chip = info.sectors_per_chip
               /\ get_card_name =
                    <<(N * info.sectors_per_chip) \div 16, info.card_info>>
     /\ (\/ ~has_card
         \/ Len(card_iids) \in {0, 1}
         \/ \E j, k \in 1..Min(Len(card_iids), Len(MEMORY_OFFSETS)) :
              card_iids[j] # card_iids[k]
         \/ <<manufacturer_id(card_iids[1]), chip_id(card_iids[1])>>
              \notin IID_MAP_KEYS)
        => (w_pc = "done" /\ w_result \in InitErrors)

\* three 2 MiB AMD chips were identified: "6MB non-WAAS (green)"
C12_Witness ==
  /\ w_pc = "command"
  /\ card_iids = <<CHIP_AMD_2MB, CHIP_AMD_2MB, CHIP_AMD_2MB>>
  /\ chips = 3
  /\ sectors_per_chip = 32
  /\ get_card_name = <<6, "non-WAAS (green)">>

\* _write_database, lines 892-896: sectors_required = -(-size // SECTOR_SIZE)
\* for the 64 KiB sectors of a navigation-data card
sectors_required ==
  (file_size + NAVDATA.sector_size - 1) \div NAVDATA.sector_size

\* the phases of _write_database in the order of its four loops (lines
\* 905-939); the blank check reads a sector and finds it blank or not
PhaseRank(phase) ==
  CASE phase \in {"found_blank", "found_used"} -> 1
    [] phase = "erase" -> 2
    [] phase = "write" -> 3
    [] phase = "verify" -> 4

DriverDue ==
  /\ pc = "done"
  /\ usbdev # <<>>
  /\ result # "OpenFailed"
  /\ EndpointsFound(endpoints)

\* every bulk transfer so far went to the discovered IN or OUT endpoint
BulkOnDiscovered ==
  \A t \in bulk_log : t = <<"read", read_ep>> \/ t = <<"write", write_ep>>

\* C28: the endpoint pair found by _read_endpoints is the pair the yielded
\* driver uses: for a Skybound and for a Garmin programmer alike the driver
\* is constructed from (handle, read_endpoint, write_endpoint) without an
\* exception, it holds exactly the discovered pair, and every bulk read and
\* bulk write of it goes to the discovered IN and OUT endpoint.
C28_DriverUsesEndpoints ==
  /\ DriverDue =>
       /\ read_ep = Head(in_eps(endpoints))
       /\ write_ep = Head(out_eps(endpoints))
       /\ dev_eps = <<read_ep, write_ep>>
  /\ dev_eps # <<>> => dev_eps = <<read_ep, write_ep>>
  /\ BulkOnDiscovered

\* the Skybound half of C28
C28_SkyboundHalf ==
  (usbdev = SKYBOUND_VID_PID) => C28_DriverUsesEndpoints

\* a Skybound driver that has made bulk reads and writes
C28_SkyboundWitness ==
  /\ usbdev = SKYBOUND_VID_PID
  /\ endpoints = <<130, 134, 2, 4>>
  /\ bulk_log = {<<"read", 130>>, <<"write", 2>>}
  /\ pc = "done"

(***************************************************************************)
(* taws_utils.py: create_footer and verifyBlockCrc, as write_taws.py uses  *)
(* them.  bytes objects are sequences of 0..255.  The block checksums work *)
(* on integers of more than 32 bits (value << 4, index >> 8 << 24), so an  *)
(* integer of theirs is the sequence of its bits, the least significant    *)
(* one first, of any length.                                               *)
(***************************************************************************)
\* bytes the input file still holds for a block
MaxPrefix == 2

BLOCK_SIZE_128 == 512
FOOTER_SIZE_128 == 16
BLOCK_SIZE_256 == 2048
FOOTER_SIZE_256 == 64

_datablock_lookup_table == <<
    0, 1, 3, 2, 5, 4, 6, 7, 7, 6, 4, 5, 2, 3, 1, 0, 9, 8, 10, 11, 12,
    13, 15, 14, 14, 15, 13, 12, 11, 10, 8, 9, 11, 10, 8, 9, 14, 15,
    13, 12, 12, 13, 15, 14, 9, 8, 10, 11, 2, 3, 1, 0, 7, 6, 4, 5, 5,
    4, 6, 7, 0, 1, 3, 2, 13, 12, 14, 15, 8, 9, 11, 10, 10, 11, 9, 8,
    15, 14, 12, 13, 4, 5, 7, 6, 1, 0, 2, 3, 3, 2, 0, 1, 6, 7, 5, 4, 6,
    7, 5, 4, 3, 2, 0, 1, 1, 0, 2, 3, 4, 5, 7, 6, 15, 14, 12, 13, 10,
    11, 9, 8, 8, 9, 11, 10, 13, 12, 14, 15, 15, 14, 12, 13, 10, 11, 9,
    8, 8, 9, 11, 10, 13, 12, 14, 15, 6, 7, 5, 4, 3, 2, 0, 1, 1, 0, 2,
    3, 4, 5, 7, 6, 4, 5, 7, 6, 1, 0, 2, 3, 3, 2, 0, 1, 6, 7, 5, 4, 13,
    12, 14, 15, 8, 9, 11, 10, 10, 11, 9, 8, 15, 14, 12, 13, 2, 3, 1,
    0, 7, 6, 4, 5, 5, 4, 6, 7, 0, 1, 3, 2, 11, 10, 8, 9, 14, 15, 13,
    12, 12, 13, 15, 14, 9, 8, 10, 11, 9, 8, 10, 11, 12, 13, 15, 14,
    14, 15, 13, 12, 11, 10, 8, 9, 0, 1, 3, 2, 5, 4, 6, 7, 7, 6, 4, 5,
    2, 3, 1, 0
>>

\* a sequence given as a function, element by element
Seal(f) == SubSeq(f, 1, Len(f))

\* the low w bits of a natural below 2^31
BitsOf(n, w) == Seal([k \in 1..w |-> (n \div (2 ^ (k - 1))) % 2])
Bits(n) == BitsOf(n, 31)

\* bit k of v, counted from 1
BitAt(v, k) == IF k <= Len(v) THEN v[k] ELSE 0

Longer(a, b) == IF Len(a) >= Len(b) THEN Len(a) ELSE Len(b)

\* a ^ b, a & b, a | b
XorV(a, b) ==
  Seal([k \in 1..Longer(a, b) |-> (BitAt(a, k) + BitAt(b, k)) % 2])
AndV(a, b) == Seal([k \in 1..Longer(a, b) |-> BitAt(a, k) * BitAt(b, k)])
OrV(a, b) ==
  Seal([k \in 1..Longer(a, b) |->
          IF BitAt(a, k) + BitAt(b, k) > 0 THEN 1 ELSE 0])

\* a << n and a >> n
ShiftLeft(a, n) ==
  Seal([k \in 1..(Len(a) + n) |-> IF k <= n THEN 0 ELSE a[k - n]])
ShiftRight(a, n) == IF Len(a) <= n THEN <<>> ELSE SubSeq(a, n + 1, Len(a))

\* a == b of two integers
SameInt(a, b) == \A k \in 1..Longer(a, b) : BitAt(a, k) = BitAt(b, k)

RECURSIVE LowBits(_, _)
\* the value of the low n bits of v, n below 32
LowBits(v, n) ==
  IF n = 0 THEN 0 ELSE BitAt(v, 1) + 2 * LowBits(ShiftRight(v, 1), n - 1)

\* _datablock_lookup_table[d], as an integer of the checksums
Lookup(d) == BitsOf(_datablock_lookup_table[d + 1], 4)
\* _datablock_lookup_table[d] & 1
LookupOdd(d) == _datablock_lookup_table[d + 1] % 2 # 0

\* value.to_bytes(n, 'little') of an integer that fits in n bytes
to_bytes_le(v, n) ==
  Seal([k \in 1..n |-> LowBits(ShiftRight(v, 8 * (k - 1)), 8)])

\* int.from_bytes(bytes, 'little')
from_bytes_le(bytes) ==
  Seal([k \in 1..(8 * Len(bytes)) |->
          (bytes[((k - 1) \div 8) + 1] \div (2 ^ ((k - 1) % 8))) % 2])

\* bytes.ljust(width, fill)
ljust(bytes, width, fill) ==
  IF Len(bytes) >= width THEN bytes
  ELSE Seal([k \in 1..width |-> IF k <= Len(bytes) THEN bytes[k] ELSE fill])

\* bytes[:-n] and bytes[-n:]
DropLast(bytes, n) == SubSeq(bytes, 1, Len(bytes) - n)
TakeLast(bytes, n) == SubSeq(bytes, Len(bytes) - n + 1, Len(bytes))

\* one round of the loops of datablock_checksum_pagesize512:
\* value ^= table[d] << 0x1c; if table[d] & 1: value ^= index
Round512(value, d, index) ==
  LET v == XorV(value, ShiftLeft(Lookup(d), 28))
  IN IF LookupOdd(d) THEN XorV(v, Bits(index)) ELSE v

RECURSIVE Over512(_, _, _, _, _)
\* the loop over bytes[lo..hi], bytes[1] having the index `first`; the test
\* of value makes TLC compute the first half before the second
Over512(bytes, lo, hi, first, value) ==
  IF Len(value) < 0 \/ lo > hi THEN value
  ELSE IF lo = hi THEN Round512(value, bytes[lo], first + lo - 1)
  ELSE LET mid == (lo + hi) \div 2
       IN Over512(bytes, mid + 1, hi, first,
                  Over512(bytes, lo, mid, first, value))

\* lines 38-42 of datablock_checksum_pagesize512; 0xffffff01 is
\* 0xffffff00 | 1 and 0xffffff00 is 0xffffff << 8
Finish512(value0) ==
  LET index1 == ShiftLeft(value0, 4)
      value  == OrV(index1, ShiftRight(value0, 28))
      at     == LowBits(ShiftRight(XorV(ShiftRight(index1, 8), value), 1), 8)
      mask   == OrV(ShiftLeft(Bits(16777215), 8), Bits(1))
      index  == AndV(OrV(ShiftLeft(ShiftRight(index1, 8), 24), Lookup(at)),
                     mask)
  IN AndV(OrV(index, XorV(index, value)), Bits(65535))

datablock_checksum_pagesize512(datablock, footer) ==
  Finish512(Over512(datablock, 1, Len(datablock), 3072,
                    Over512(footer, 1, Len(footer), 1536, <<>>)))

\* one round of the loops of datablock_checksum_pagesize2048:
\* crc ^= table[d]; if table[d] & 1: crc ^= index << 4
Round2048(crc, d, index) ==
  LET c == XorV(crc, Lookup(d))
  IN IF LookupOdd(d) THEN XorV(c, ShiftLeft(Bits(index), 4)) ELSE c

RECURSIVE Over2048(_, _, _, _, _)
Over2048(bytes, lo, hi, first, crc) ==
  IF Len(crc) < 0 \/ lo > hi THEN crc
  ELSE IF lo = hi THEN Round2048(crc, bytes[lo], first + lo - 1)
  ELSE LET mid == (lo + hi) \div 2
       IN Over2048(bytes, mid + 1, hi, first,
                   Over2048(bytes, lo, mid, first, crc))

\* lines 61-62 of datablock_checksum_pagesize2048
Finish2048(crc) ==
  LET index == XorV(ShiftRight(crc, 16), crc)
      at    == LowBits(XorV(ShiftRight(index, 9), ShiftRight(index, 1)), 8)
  IN XorV(AndV(Lookup(at), Bits(1)), crc)

datablock_checksum_pagesize2048(datablock, footer) ==
  Finish2048(Over2048(datablock, 1, Len(datablock), 201326592,
                      Over2048(footer, 1, Len(footer), 100663296, <<>>)))

\* fastcrc's crc16.mcrf4xx(data, initial): CRC-16/MCRF4XX, reflected
\* polynomial 0x8408, no final xor; one bit of one byte
Crc16Bit(crc) ==
  IF crc % 2 = 1 THEN XorBits(crc \div 2, 33800) ELSE crc \div 2

\* one byte
Crc16Byte(crc, b) ==
  Crc16Bit(Crc16Bit(Crc16Bit(Crc16Bit(
    Crc16Bit(Crc16Bit(Crc16Bit(Crc16Bit(XorBits(crc, b)))))))))

RECURSIVE Crc16Over(_, _, _, _)
Crc16Over(data, lo, hi, crc) ==
  IF crc < 0 \/ lo > hi THEN crc
  ELSE IF lo = hi THEN Crc16Byte(crc, data[lo])
  ELSE LET mid == (lo + hi) \div 2
       IN Crc16Over(data, mid + 1, hi, Crc16Over(data, lo, mid, crc))

\* crc16_checksum(data, value), value defaulting to 0xffff
crc16_checksum(data, value) == Crc16Over(data, 1, Len(data), value)

\* create_footer(data, current_idx, footer_size)
create_footer(data, current_idx, footer_size) ==
  LET footer0 == ljust(to_bytes_le(Bits(current_idx), 4), footer_size - 4, 0)
  IN IF footer_size = FOOTER_SIZE_128
     THEN LET footer1 ==
                footer0 \o to_bytes_le(Bits(crc16_checksum(footer0, 65535)), 2)
          IN footer1 \o to_bytes_le(
                          datablock_checksum_pagesize512(data, footer1), 2)
     ELSE footer0 \o to_bytes_le(
                       datablock_checksum_pagesize2048(data, footer0), 4)

\* verifyBlockCrc(data, footer): "ok", or the check that raises ValueError
verifyBlockCrc(data, footer) ==
  LET big == Len(data) = BLOCK_SIZE_256
      block_crc ==
        IF big THEN datablock_checksum_pagesize2048(data, DropLast(footer, 4))
        ELSE datablock_checksum_pagesize512(data, DropLast(footer, 2))
      footer_block_crc ==
        from_bytes_le(TakeLast(footer, IF big THEN 4 ELSE 2))
  IN IF ~SameInt(block_crc, footer_block_crc) THEN "block checksum"
     ELSE IF Len(data) = BLOCK_SIZE_128
             /\ crc16_checksum(DropLast(footer, 2),
                               crc16_checksum(data, 65535)) # 0
          THEN "crc16 checksum"
          ELSE "ok"

\* guess_block_footer_size: the two (block_size, footer_size) pairs
PageSizes ==
  {<<BLOCK_SIZE_256, FOOTER_SIZE_256>>, <<BLOCK_SIZE_128, FOOTER_SIZE_128>>}

\* bytes of the logical image, and block indices
ImageBytes == {0, 1}
BlockIdx == {0, 1, 258}

\* write_taws.py:60-63: data = fd_in.read(block_size).ljust(block_size,
\* b'\xff'), then footer = create_footer(data, current_idx, footer_size)
OCreate ==
  /\ UNCHANGED NotO
  /\ o_pc = "start"
  /\ o_footer' = create_footer(ljust(o_read, o_block_size, 255), o_idx,
                               o_footer_size)
  /\ o_pc' = "created"
  /\ UNCHANGED <<o_read, o_block_size, o_footer_size, o_idx, o_verdict>>

\* verifyBlockCrc on the block and the footer that were written
OVerify ==
  /\ UNCHANGED NotO
  /\ o_pc = "created"
  /\ o_verdict' = verifyBlockCrc(ljust(o_read, o_block_size, 255), o_footer)
  /\ o_pc' = "verified"
  /\ UNCHANGED <<o_read, o_block_size, o_footer_size, o_idx, o_footer>>

OInit ==
  /\ o_pc = "start"
  /\ o_read \in SeqsUpTo(ImageBytes, MaxPrefix)
  /\ \E sizes \in PageSizes :
       o_block_size = sizes[1] /\ o_footer_size = sizes[2]
  /\ o_idx \in BlockIdx
  /\ o_footer = <<>>
  /\ o_verdict = "none"

InitFooter == DIdle /\ GIdle /\ WIdle /\ IdleBut("o") /\ OInit

NextFooter ==
  \/ OCreate
  \/ OVerify

SpecFooter == InitFooter /\ [][NextFooter]_vars

(***************************************************************************)
(* Claims about the TAWS block footers                                     *)
(***************************************************************************)
\* C29: every (data block, footer) pair produced by create_footer passes
\* verifyBlockCrc: neither the datablock checksum (16 bits for 512-byte
\* pages, 32 bits for 2048-byte pages) nor, for 512-byte pages, the mcrf4xx
\* CRC16 over the data and the footer without its last two bytes makes it
\* raise.
C29_FooterPassesVerify ==
  o_pc = "verified" => o_verdict = "ok"

\* the half of C29 about 2048-byte pages
C29_BigPagesPass ==
  (o_pc = "verified" /\ o_block_size = BLOCK_SIZE_256) => o_verdict = "ok"

\* the datablock checksum of a footer of create_footer always matches
C29_BlockChecksumMatches ==
  o_verdict # "block checksum"

\* a verified block of each page size
C29_BigPageWitness ==
  /\ o_pc = "verified"
  /\ o_block_size = BLOCK_SIZE_256
  /\ o_read = <<1, 0>>
  /\ o_idx = 258

(***************************************************************************)
(* avidyne.py: SFXCopySection.parse_script.  A path is the sequence of its *)
(* components (PurePosixPath.parts); PurePosixPath(".") has none.          *)
(***************************************************************************)
\* file lines of a Copy section, and components of a line
MaxLines == 2
MaxParts == 2

\* PurePosixPath(line).parts of a relative line: "." components are dropped
PurePosixPath(components) == SelectSeq(components, LAMBDA c : c # ".")

\* path.parent: the parent of "." is "."
parent(path) == IF path = <<>> THEN <<>> ELSE SubSeq(path, 1, Len(path) - 1)

RECURSIVE StripUps(_, _)
\* the while loop of lines 203-205 on (rel_path, dsf_dir): its result, or
\* <<>> when rel_path.parts[0] raises IndexError
StripUps(rel_path, dir) ==
  IF rel_path = <<>> THEN <<>>
  ELSE IF Head(rel_path) = ".."
       THEN StripUps(Tail(rel_path), parent(dir))
       ELSE <<[rel_path |-> rel_path, dsf_dir |-> dir]>>

\* main.py:469: PurePosixPath("tail" if tail_drm else ".")
DsfDirs == {<<"tail">>, <<>>}

\* the components of the lines of a script; a line that strip() leaves
\* empty ends the section and is not among them
LineParts == {"..", ".", "a"}
FileLines == SeqsUpTo(LineParts, MaxParts) \ {<<>>}

\* one iteration of `for line in fd` (lines 199-207)
YLine ==
  /\ UNCHANGED NotY
  /\ y_pc = "loop"
  /\ y_i < Len(y_script)
  /\ LET out == StripUps(PurePosixPath(y_script[y_i + 1]), y_dsf_dir) IN
     IF out = <<>>
     THEN /\ y_result' = "IndexError"
          /\ y_pc' = "done"
          /\ UNCHANGED <<y_dsf_dir, y_files>>
     ELSE /\ y_dsf_dir' = out[1].dsf_dir
          /\ y_files' = Append(y_files, out[1].dsf_dir \o out[1].rel_path)
          /\ UNCHANGED <<y_result, y_pc>>
  /\ y_i' = y_i + 1
  /\ UNCHANGED <<y_dir0, y_script>>

\* the blank line or the end of the script: line 209
YReturn ==
  /\ UNCHANGED NotY
  /\ y_pc = "loop"
  /\ y_i = Len(y_script)
  /\ y_result' = "ok"
  /\ y_pc' = "done"
  /\ UNCHANGED <<y_dir0, y_dsf_dir, y_script, y_i, y_files>>

YInit ==
  /\ y_pc = "loop"
  /\ y_dir0 \in DsfDirs
  /\ y_dsf_dir = y_dir0
  /\ y_script \in SeqsUpTo(FileLines, MaxLines)
  /\ y_i = 0
  /\ y_files = <<>>
  /\ y_result = "none"

InitCopySection == DIdle /\ GIdle /\ WIdle /\ IdleBut("y") /\ YInit

NextCopySection ==
  \/ YLine
  \/ YReturn

SpecCopySection == InitCopySection /\ [][NextCopySection]_vars

(***************************************************************************)
(* Claims about the Copy section of a DSF script                           *)
(***************************************************************************)
RECURSIVE LeadingUps(_)
\* the number of leading ".." components of a path
LeadingUps(path) ==
  IF path # <<>> /\ Head(path) = ".." THEN 1 + LeadingUps(Tail(path)) ELSE 0

RECURSIVE Climb(_, _)
\* n levels up from a directory
Climb(dir, n) == IF n = 0 THEN dir ELSE Climb(parent(dir), n - 1)

\* a line resolved on its own against the dsf directory
ResolvedAlone(dir, line) ==
  LET path == PurePosixPath(line)
      n == LeadingUps(path)
  IN Climb(dir, n) \o SubSeq(path, n + 1, Len(path))

\* C30: each file line of a Copy section is resolved on its own against the
\* dsf directory: every leading ".." of the line climbs one level out of the
\* dsf directory and a line without leading ".." resolves directly under the
\* dsf directory, whatever ".." the earlier lines of the section had.
C30_LinesResolvedAlone ==
  \A k \in 1..Len(y_files) :
    y_files[k] = ResolvedAlone(y_dir0, y_script[k])

\* the first file line of a section is resolved as C30 says
C30_FirstLineResolvedAlone ==
  y_files # <<>> => y_files[1] = ResolvedAlone(y_dir0, y_script[1])

\* a line with ".." followed by a line without, under "tail"
C30_CarryWitness ==
  /\ y_dir0 = <<"tail">>
  /\ y_script = << <<"..", "a">>, <<"a">> >>
  /\ y_pc = "done"
  /\ y_result = "ok"

====
